---- MODULE Spec2Model ----
(***************************************************************************)
(* Loyalty-point ledger of gophermart-system: order registration           *)
(* (PostgresRepository.AddOrder), the accrual reconciliation loop          *)
(* (Service.StartAccrualUpdates / processAccrualBatch) and the balance     *)
(* ledger (GetBalance / CreateWithdrawal).                                 *)
(*                                                                         *)
(* The store is PostgreSQL at its default isolation level READ COMMITTED:  *)
(* every SQL statement is one atomic step that sees the committed rows     *)
(* plus the uncommitted rows of its own transaction.                       *)
(*                                                                         *)
(* Decimal amounts that cross the system boundary as float64 (the sum of a *)
(* withdrawal request, the accrual of an oracle answer) are modelled as    *)
(* integers in thousandths ("mills"): 290 is 0.29, 5 is 0.005.             *)
(* Stored amounts are integers in hundredths ("cents"), as in the schema.  *)
(***************************************************************************)
EXTENDS Integers, FiniteSets, Sequences, TLC

\* ------------------------------------------------------------------ bounds
\* Total number of client requests issued in one behaviour.
MaxRequests == 2

\* Users of the users table (ids), never deleted.
Users == {1, 2}
\* Luhn-valid order numbers a client may upload.
Numbers == {"n1", "n2"}
\* Order references a client may name in a withdrawal.
Refs == {"r1", "r2"}
\* Request-handling goroutines (one per in-flight HTTP request).
Procs == {1, 2}
\* float64 sums of withdrawal requests, in mills.
WithdrawSums == {-10, 0, 5, 10, 290}
\* float64 accruals the oracle may report, in mills.
OracleAccruals == {-10, 10, 290}
\* Retry-After durations (seconds) of a 429 answer.
RetryAfters == {-1, 0, 5}

\* Longest request body of an order upload, in characters.
MaxBodyLen == 3

\* ------------------------------------------------------- program constants
OrderStatusNew == "NEW"
OrderStatusProcessing == "PROCESSING"
OrderStatusInvalid == "INVALID"
OrderStatusProcessed == "PROCESSED"
OrderStatuses ==
  {OrderStatusNew, OrderStatusProcessing, OrderStatusInvalid, OrderStatusProcessed}

ErrOrderOwnedByAnother == "ErrOrderOwnedByAnother"
ErrInsufficientBalance == "ErrInsufficientBalance"
\* errors.New("withdraw sum must be positive")
ErrSumNotPositive == "ErrSumNotPositive"
\* any wrapped storage error (fmt.Errorf("...: %w", err))
ErrStorage == "ErrStorage"

\* limit argument of GetOrdersForAccrual in processAccrualBatch
BatchLimit == 100

\* ------------------------------------------------------------------- state
VARIABLES
  orders,       \* committed rows of table orders
  withdrawals,  \* committed rows of table withdrawals
  clock,        \* NOW() of the database, a logical timestamp
  req,          \* per goroutine: the request in flight and its locals
  started,      \* number of requests issued so far
  loop,         \* the accrual goroutine: position and rest of the batch
  cancelled,    \* ctx.Done() of the process context is closed
  ticker,       \* a tick is waiting in ticker.C (a channel of capacity 1)
  timer,        \* seconds until timer.C of the rate-limit pause fires
  backoff,      \* seconds of the last Retry-After hint that have not passed
  queries,      \* oracle requests sent in the current (or the last) cycle
  budget,       \* number of requests the clients issue in this behaviour
  call,         \* one GetOrderAccrual: the exchange, requests sent, result
  accrualClient, \* s.accrualClient # nil: the service has an oracle client
  web,          \* one HTTP handler at work: its request and its response
  seen          \* per GetBalance in flight: the totals of its user's ledger
                \* in every store state since the call began

vars ==
  <<orders, withdrawals, clock, req, started, loop, cancelled,
    ticker, timer, backoff, queries, budget, call, accrualClient, web, seen>>

\* A nullable BIGINT is a set with at most one element; NULL is {}.
NULL == {}

\* ----------------------------------------------------------------- helpers
Min(a, b) == IF a <= b THEN a ELSE b

Abs(x) == IF x < 0 THEN -x ELSE x

\* Sum of f[x] over a finite set S.
RECURSIVE SumOver(_, _)
SumOver(S, f) ==
  IF S = {} THEN 0
  ELSE LET x == CHOOSE y \in S : TRUE
       IN f[x] + SumOver(S \ {x}, f)

\* float64 products m/1000 * 100 whose IEEE-754 result lies just below the
\* exact integer (0.29*100 = 28.999999999999996, 0.57*100, 0.58*100,
\* 1.13*100 ...), for the two-decimal values below 1.20.
F64ProductBelow == {290, 570, 580, 1130, 1140, 1150, 1160}

\* int64(x * 100) for the float64 x = m/1000: the product is truncated
\* toward zero, after the float64 multiplication.
ToCents(m) ==
  LET a == Abs(m)
      t == IF a \in F64ProductBelow THEN (a \div 10) - 1 ELSE a \div 10
  IN IF m < 0 THEN -t ELSE t

\* ------------------------------------------------------- request goroutines
\* A goroutine between requests, or before its first one.
IdleReq ==
  [op |-> "none", pc |-> "idle", user |-> 0, key |-> "", sumCents |-> 0,
   pend |-> {}, inserted |-> FALSE, existingUserID |-> 0,
   accrualTotal |-> 0, withdrawnTotal |-> 0, current |-> 0, result |-> "none",
   list |-> <<>>]

\* A goroutine that has returned keeps only what it returned.
Done(result) == [IdleReq EXCEPT !.pc = "done", !.result = result]

\* pc values at which a goroutine is not serving a request.
Free(p) == req[p].pc \in {"idle", "done"}

\* A new request is served by the first goroutine that is not serving one;
\* the server accepts requests until shutdown begins (server.Shutdown on
\* ctx.Done()).
Accepts(p) == Free(p) /\ \A q \in Procs : q < p => ~Free(q)

\* Uncommitted order rows of the other transactions.
OtherPendingOrders(p) ==
  UNION {IF req[q].op = "AddOrder" THEN req[q].pend ELSE {} : q \in Procs \ {p}}

\* Uncommitted withdrawal rows of the other transactions.
OtherPendingWithdrawals(p) ==
  UNION {IF req[q].op = "CreateWithdrawal" THEN req[q].pend ELSE {} : q \in Procs \ {p}}

\* SELECT COALESCE(SUM(accrual), 0) FROM orders
\* WHERE user_id = $1 AND status = 'PROCESSED'  (SUM skips NULL).
SumAccruals(rows, userID) ==
  LET mine == {r \in rows : /\ r.user = userID
                            /\ r.status = OrderStatusProcessed
                            /\ r.accrual # NULL}
  IN SumOver(mine, [r \in mine |-> CHOOSE v \in r.accrual : TRUE])

\* SELECT COALESCE(SUM(sum), 0) FROM withdrawals WHERE user_id = $1,
\* over the committed rows and the rows of the reading transaction.
SumWithdrawals(rows, userID) ==
  LET mine == {w \in rows : w.user = userID}
  IN SumOver(mine, [w \in mine |-> w.sum])

\* Goroutine p is inside GetBalance in the given request table.
InGetBalance(r, p) == r[p].op = "GetBalance" /\ r[p].pc \notin {"idle", "done"}

\* The history of a step: for every GetBalance in flight after the step, the
\* totals of its user's ledger in the store states since the call began.
Witnessed ==
  [p \in Procs |->
     IF InGetBalance(req', p)
       THEN (IF InGetBalance(req, p) THEN seen[p] ELSE {})
              \cup {[accrued |-> SumAccruals(orders', req'[p].user),
                      withdrawn |-> SumWithdrawals(withdrawals', req'[p].user)]}
       ELSE {}]

\* ---------------------------------------------------------------- AddOrder
\* Mutant: the INSERT does not wait for a concurrent insert of the number.
OrderInsertMustWait_Never(p, number) == FALSE

\* UNIQUE(number) with ON CONFLICT (number) DO NOTHING: the statement waits
\* while another transaction holds an uncommitted row with the same number.
OrderInsertMustWait(p, number) ==
  \E r \in OtherPendingOrders(p) : r.number = number

\* Mutant: no uniqueness on number, every INSERT adds a row.
OrderConflict_Never(number) == FALSE

\* UNIQUE(number) with ON CONFLICT (number) DO NOTHING: a committed row with
\* the number makes the statement insert nothing.
OrderConflict(number) ==
  \E r \in orders : r.number = number

\* Service.AddOrder -> PostgresRepository.AddOrder: pool.Begin.
BeginAddOrder(p, userID, number) ==
  /\ Accepts(p)
  /\ ~cancelled
  /\ started < budget
  /\ started' = started + 1
  /\ req' = [req EXCEPT ![p] =
       [IdleReq EXCEPT !.op = "AddOrder", !.pc = "insert",
                       !.user = userID, !.key = number]]
  /\ UNCHANGED <<orders, withdrawals, clock, loop, cancelled,
               ticker, timer, backoff, queries, budget, call, accrualClient, web>>
  /\ seen' = Witnessed

\* INSERT INTO orders (number, user_id, status) VALUES ($1, $2, 'NEW')
\* ON CONFLICT (number) DO NOTHING; inserted := RowsAffected() = 1.
AddOrderInsert(p) ==
  /\ req[p].op = "AddOrder" /\ req[p].pc = "insert"
  /\ ~OrderInsertMustWait(p, req[p].key)
  /\ IF OrderConflict(req[p].key)
       THEN /\ req' = [req EXCEPT ![p].pc = "select", ![p].inserted = FALSE]
            /\ clock' = clock
       ELSE /\ req' = [req EXCEPT ![p].pc = "select", ![p].inserted = TRUE,
                 ![p].pend = {[number |-> req[p].key, user |-> req[p].user,
                               status |-> OrderStatusNew, accrual |-> NULL,
                               uploaded |-> clock]}]
            /\ clock' = clock + 1
  /\ UNCHANGED <<orders, withdrawals, started, loop, cancelled,
               ticker, timer, backoff, queries, budget, call, accrualClient, web>>
  /\ seen' = Witnessed

\* SELECT user_id FROM orders WHERE number = $1, inside the transaction.
AddOrderSelect(p) ==
  /\ req[p].op = "AddOrder" /\ req[p].pc = "select"
  /\ LET visible == {r \in orders \cup req[p].pend : r.number = req[p].key}
     IN IF visible = {}
          \* pgx.ErrNoRows: "select existing order", deferred Rollback
          THEN req' = [req EXCEPT ![p] = Done(ErrStorage)]
          ELSE req' = [req EXCEPT ![p].pc = "commit",
                 ![p].existingUserID = (CHOOSE r \in visible : TRUE).user]
  /\ UNCHANGED <<orders, withdrawals, clock, started, loop, cancelled,
               ticker, timer, backoff, queries, budget, call, accrualClient, web>>
  /\ seen' = Witnessed

\* Mutant: returns inserted instead of !inserted.
AddOrderResult_Inverted(userID, existingUserID, inserted) ==
  IF existingUserID = userID
    THEN (IF inserted THEN "alreadyExists" ELSE "new")
    ELSE ErrOrderOwnedByAnother

\* Mutant: the owner of the existing row is not compared with the caller.
AddOrderResult_AnyOwner(userID, existingUserID, inserted) ==
  IF inserted THEN "new" ELSE "alreadyExists"

\* The value AddOrder returns after the commit: (!inserted, nil) as "new" or
\* "alreadyExists", or ErrOrderOwnedByAnother.
AddOrderResult(userID, existingUserID, inserted) ==
  IF existingUserID = userID
    THEN (IF inserted THEN "new" ELSE "alreadyExists")
    ELSE ErrOrderOwnedByAnother

\* tx.Commit, then the comparison of existingUserID with userID.
AddOrderCommit(p) ==
  /\ req[p].op = "AddOrder" /\ req[p].pc = "commit"
  /\ orders' = orders \cup req[p].pend
  /\ req' = [req EXCEPT ![p] =
       Done(AddOrderResult(req[p].user, req[p].existingUserID,
                           req[p].inserted))]
  /\ UNCHANGED <<withdrawals, clock, started, loop, cancelled,
               ticker, timer, backoff, queries, budget, call, accrualClient, web>>
  /\ seen' = Witnessed

\* ------------------------------------------------------------ ledger reads
\* ------------------------------------------------------- CreateWithdrawal
\* SELECT 1 FROM users WHERE id = $1 FOR UPDATE is held from the statement
\* to the end of the transaction.
HoldsUserLock(q, userID) ==
  /\ req[q].op = "CreateWithdrawal"
  /\ req[q].user = userID
  /\ req[q].pc \in {"sumAccruals", "sumWithdrawals", "check", "commit"}

\* Mutant: the SELECT does not lock the row (FOR UPDATE left out).
CanLockUser_NoLock(p, userID) == TRUE

\* Mutant: one lock for all accounts (LOCK TABLE users).
CanLockUser_Global(p, userID) ==
  \A q \in Procs \ {p}, u \in Users : ~HoldsUserLock(q, u)

\* The row lock is granted when no other transaction holds it.
CanLockUser(p, userID) ==
  \A q \in Procs \ {p} : ~HoldsUserLock(q, userID)

\* Mutant: only a negative sum is refused.
SumNotPositive_NegativeOnly(sumCents) == sumCents < 0

\* if sumCents <= 0 { return errors.New("withdraw sum must be positive") }
SumNotPositive(sumCents) == sumCents <= 0

\* Service.CreateWithdrawal: sumCents := int64(sum * 100); a sum that is not
\* positive in cents is refused before the repository is called.
BeginCreateWithdrawal(p, userID, order, sum) ==
  /\ Accepts(p)
  /\ ~cancelled
  /\ started < budget
  /\ started' = started + 1
  /\ LET sumCents == ToCents(sum)
     IN req' = [req EXCEPT ![p] =
          IF SumNotPositive(sumCents)
            THEN Done(ErrSumNotPositive)
            ELSE [IdleReq EXCEPT !.op = "CreateWithdrawal", !.pc = "lock",
                     !.user = userID, !.key = order, !.sumCents = sumCents]]
  /\ UNCHANGED <<orders, withdrawals, clock, loop, cancelled,
               ticker, timer, backoff, queries, budget, call, accrualClient, web>>
  /\ seen' = Witnessed

\* pool.Begin; SELECT 1 FROM users WHERE id = $1 FOR UPDATE.
WithdrawLock(p) ==
  /\ req[p].op = "CreateWithdrawal" /\ req[p].pc = "lock"
  /\ CanLockUser(p, req[p].user)
  /\ req' = [req EXCEPT ![p].pc = "sumAccruals"]
  /\ UNCHANGED <<orders, withdrawals, clock, started, loop, cancelled,
               ticker, timer, backoff, queries, budget, call, accrualClient, web>>
  /\ seen' = Witnessed

\* accrualTotal := SUM(accrual) of the user's PROCESSED orders.
WithdrawSumAccruals(p) ==
  /\ req[p].op = "CreateWithdrawal" /\ req[p].pc = "sumAccruals"
  /\ req' = [req EXCEPT ![p].pc = "sumWithdrawals",
                        ![p].accrualTotal = SumAccruals(orders, req[p].user)]
  /\ UNCHANGED <<orders, withdrawals, clock, started, loop, cancelled,
               ticker, timer, backoff, queries, budget, call, accrualClient, web>>
  /\ seen' = Witnessed

\* withdrawnTotal := SUM(sum) of the user's withdrawals.
WithdrawSumWithdrawals(p) ==
  /\ req[p].op = "CreateWithdrawal" /\ req[p].pc = "sumWithdrawals"
  /\ req' = [req EXCEPT ![p].pc = "check",
       ![p].withdrawnTotal = SumWithdrawals(withdrawals \cup req[p].pend,
                                            req[p].user)]
  /\ UNCHANGED <<orders, withdrawals, clock, started, loop, cancelled,
               ticker, timer, backoff, queries, budget, call, accrualClient, web>>
  /\ seen' = Witnessed

\* Mutant: a sum equal to the balance is refused.
Insufficient_OrEqual(sumCents, current) == sumCents >= current

\* if sumCents > current { return ErrInsufficientBalance }
Insufficient(sumCents, current) == sumCents > current

\* UNIQUE(order_number): the INSERT waits while another transaction holds an
\* uncommitted withdrawal with the same order_number.
WithdrawalInsertMustWait(p, order) ==
  \E w \in OtherPendingWithdrawals(p) : w.order = order

\* Mutant: withdrawals.order_number is not UNIQUE.
WithdrawalConflict_Never(order) == FALSE

\* UNIQUE(order_number): a committed row with the same order_number makes
\* the INSERT fail with a unique violation.
WithdrawalConflict(order) ==
  \E w \in withdrawals : w.order = order

\* current := accrualTotal - withdrawnTotal; the balance check; then
\* INSERT INTO withdrawals (user_id, order_number, sum) VALUES ($1, $2, $3).
\* Every error return runs the deferred tx.Rollback.
WithdrawCheckInsert(p) ==
  /\ req[p].op = "CreateWithdrawal" /\ req[p].pc = "check"
  /\ LET current == req[p].accrualTotal - req[p].withdrawnTotal
     IN IF Insufficient(req[p].sumCents, current)
          THEN req' = [req EXCEPT ![p] = Done(ErrInsufficientBalance)]
          ELSE /\ ~WithdrawalInsertMustWait(p, req[p].key)
               /\ IF WithdrawalConflict(req[p].key)
                    THEN req' = [req EXCEPT ![p] = Done(ErrStorage)]
                    ELSE req' = [req EXCEPT ![p].pc = "commit",
                                   ![p].pend = {[user |-> req[p].user,
                                                 order |-> req[p].key,
                                                 sum |-> req[p].sumCents]}]
  /\ UNCHANGED <<orders, withdrawals, clock, started, loop, cancelled,
               ticker, timer, backoff, queries, budget, call, accrualClient, web>>
  /\ seen' = Witnessed

\* tx.Commit: the withdrawal becomes visible and the row lock is released.
WithdrawCommit(p) ==
  /\ req[p].op = "CreateWithdrawal" /\ req[p].pc = "commit"
  /\ withdrawals' = withdrawals \cup req[p].pend
  /\ req' = [req EXCEPT ![p] = Done("ok")]
  /\ UNCHANGED <<orders, clock, started, loop, cancelled,
               ticker, timer, backoff, queries, budget, call, accrualClient, web>>
  /\ seen' = Witnessed

\* -------------------------------------------------------------- GetBalance
\* PostgresRepository.GetBalance, first query (no transaction).
BeginGetBalance(p, userID) ==
  /\ Accepts(p)
  /\ ~cancelled
  /\ started < budget
  /\ started' = started + 1
  /\ req' = [req EXCEPT ![p] =
       [IdleReq EXCEPT !.op = "GetBalance", !.pc = "sumAccruals",
                       !.user = userID]]
  /\ UNCHANGED <<orders, withdrawals, clock, loop, cancelled,
               ticker, timer, backoff, queries, budget, call, accrualClient, web>>
  /\ seen' = Witnessed

\* accrualTotal := SUM(accrual) of the user's PROCESSED orders.
BalanceSumAccruals(p) ==
  /\ req[p].op = "GetBalance" /\ req[p].pc = "sumAccruals"
  /\ req' = [req EXCEPT ![p].pc = "sumWithdrawals",
                        ![p].accrualTotal = SumAccruals(orders, req[p].user)]
  /\ UNCHANGED <<orders, withdrawals, clock, started, loop, cancelled,
               ticker, timer, backoff, queries, budget, call, accrualClient, web>>
  /\ seen' = Witnessed

\* current := accrualTotal - withdrawnTotal; if current < 0 { current = 0 }
FloorAtZero(current) == IF current < 0 THEN 0 ELSE current

\* withdrawnTotal := SUM(sum) of the user's withdrawals; the floored
\* difference and withdrawnTotal are returned.
BalanceSumWithdrawals(p) ==
  /\ req[p].op = "GetBalance" /\ req[p].pc = "sumWithdrawals"
  /\ LET withdrawnTotal == SumWithdrawals(withdrawals, req[p].user)
     IN req' = [req EXCEPT ![p] =
          [Done("ok") EXCEPT
             !.withdrawnTotal = withdrawnTotal,
             !.current = FloorAtZero(req[p].accrualTotal - withdrawnTotal)]]
  /\ UNCHANGED <<orders, withdrawals, clock, started, loop, cancelled,
               ticker, timer, backoff, queries, budget, call, accrualClient, web>>
  /\ seen' = Witnessed

\* --------------------------------------------------------- GetOrdersByUser
\* Rows of S as a sequence in descending uploaded_at: the row at position i
\* has i - 1 rows of S after it.
OrderByUploadedDesc(S) ==
  LET after(r) == Cardinality({x \in S : x.uploaded > r.uploaded})
  IN [i \in 1..Cardinality(S) |-> CHOOSE r \in S : after(r) = i - 1]

\* v := float64(*accrualC) / 100, in mills: the float64 nearest to the
\* decimal amount with two places.
ToAmount(cents) == cents * 10

\* The model.Order built from a scanned row: Accrual is nil for a NULL
\* column.
ScanOrder(r) ==
  [Number |-> r.number, Status |-> r.status,
   Accrual |-> IF r.accrual = NULL THEN NULL
               ELSE {ToAmount(CHOOSE c \in r.accrual : TRUE)},
   UploadedAt |-> r.uploaded]

\* Mutant: the WHERE clause is left out.
GetOrdersByUser_AllUsers(userID) ==
  LET rows == OrderByUploadedDesc(orders)
  IN [i \in 1..Len(rows) |-> ScanOrder(rows[i])]

\* Mutant: ORDER BY uploaded_at without DESC.
GetOrdersByUser_Ascending(userID) ==
  LET rows == OrderByUploadedDesc({r \in orders : r.user = userID})
  IN [i \in 1..Len(rows) |-> ScanOrder(rows[Len(rows) + 1 - i])]

\* SELECT number, status, accrual, uploaded_at FROM orders
\* WHERE user_id = $1 ORDER BY uploaded_at DESC.
GetOrdersByUser(userID) ==
  LET rows == OrderByUploadedDesc({r \in orders : r.user = userID})
  IN [i \in 1..Len(rows) |-> ScanOrder(rows[i])]

\* Service.GetOrdersByUser -> PostgresRepository.GetOrdersByUser.
BeginGetOrdersByUser(p, userID) ==
  /\ Accepts(p)
  /\ ~cancelled
  /\ started < budget
  /\ started' = started + 1
  /\ req' = [req EXCEPT ![p] =
       [IdleReq EXCEPT !.op = "GetOrdersByUser", !.pc = "query",
                       !.user = userID]]
  /\ UNCHANGED <<orders, withdrawals, clock, loop, cancelled,
               ticker, timer, backoff, queries, budget, call, accrualClient, web>>
  /\ seen' = Witnessed

\* r.pool.Query and the scan of its rows: one statement, one snapshot.  A
\* failed query or scan returns a wrapped error and no list.
GetOrdersByUserQuery(p, failed) ==
  /\ req[p].op = "GetOrdersByUser" /\ req[p].pc = "query"
  /\ req' = [req EXCEPT ![p] =
       IF failed THEN Done(ErrStorage)
       ELSE [Done("ok") EXCEPT !.user = req[p].user,
                               !.list = GetOrdersByUser(req[p].user)]]
  /\ UNCHANGED <<orders, withdrawals, clock, started, loop, cancelled,
               ticker, timer, backoff, queries, budget, call, accrualClient, web>>
  /\ seen' = Witnessed

\* ------------------------------------------------------ accrual oracle
\* What accrualClient.GetOrderAccrual returns: (resp, statusCode,
\* retryAfter, err).  hasResp is resp # nil; Accrual is NULL or {mills}.
Answer(err, statusCode, retryAfter, hasResp, status, accrual) ==
  [err |-> err, statusCode |-> statusCode, retryAfter |-> retryAfter,
   hasResp |-> hasResp, Status |-> status, Accrual |-> accrual]

NoAnswer == Answer(FALSE, 0, 0, FALSE, "", NULL)

\* Status strings of a 200 answer; "UNKNOWN" stands for any other string.
OracleStatuses == {"REGISTERED", "PROCESSING", "INVALID", "PROCESSED", "UNKNOWN"}

OracleAnswers ==
  {Answer(TRUE, 0, 0, FALSE, "", NULL)}
  \cup {NoAnswer}
  \cup {Answer(FALSE, 429, d, FALSE, "", NULL) : d \in RetryAfters}
  \cup {Answer(FALSE, 204, 0, FALSE, "", NULL)}
  \cup {Answer(FALSE, 500, 0, FALSE, "", NULL)}
  \cup {Answer(FALSE, 200, 0, TRUE, st, NULL) : st \in OracleStatuses}
  \cup {Answer(FALSE, 200, 0, TRUE, st, {a}) :
          st \in OracleStatuses, a \in OracleAccruals}

\* ------------------------------------------------- accrual client (HTTP)
\* time.Second in nanoseconds.  An int64 is kept exact as a sign and a
\* magnitude of four limbs to this base, most significant first.
Second == 1000000000

ZeroMag == <<0, 0, 0, 0>>
\* 2^63 - 1, 2^63 and 2^64.
MaxInt64 == <<0, 9, 223372036, 854775807>>
TwoTo63 == <<0, 9, 223372036, 854775808>>
TwoTo64 == <<0, 18, 446744073, 709551616>>

\* x >= y on magnitudes.
Geq(x, y) ==
  \/ x = y
  \/ \E i \in 1..4 : x[i] > y[i] /\ \A j \in 1..(i - 1) : x[j] = y[j]

\* x - y on magnitudes, for x >= y.
Minus(x, y) ==
  LET b4 == IF x[4] < y[4] THEN 1 ELSE 0
      b3 == IF x[3] - b4 < y[3] THEN 1 ELSE 0
      b2 == IF x[2] - b3 < y[2] THEN 1 ELSE 0
  IN <<x[1] - b2 - y[1],
       x[2] - b3 - y[2] + b2 * Second,
       x[3] - b4 - y[3] + b3 * Second,
       x[4] - y[4] + b4 * Second>>

RECURSIVE Mod64(_)
Mod64(x) == IF Geq(x, TwoTo64) THEN Mod64(Minus(x, TwoTo64)) ELSE x

\* An integer reduced to int64 in two's complement, as Go's arithmetic does
\* on overflow.
WrapInt64(neg, mag) ==
  LET r == Mod64(mag)
  IN IF r = ZeroMag THEN [neg |-> FALSE, mag |-> ZeroMag]
     ELSE IF ~neg
       THEN IF Geq(r, TwoTo63)
              THEN [neg |-> TRUE, mag |-> Minus(TwoTo64, r)]
              ELSE [neg |-> FALSE, mag |-> r]
       ELSE IF Geq(TwoTo63, r)
              THEN [neg |-> TRUE, mag |-> r]
              ELSE [neg |-> FALSE, mag |-> Minus(TwoTo64, r)]

\* The magnitude of mag * time.Second, for mag below Second^3.
TimesSecond(mag) == <<mag[2], mag[3], mag[4], 0>>

DigitChars == <<"0", "1", "2", "3", "4", "5", "6", "7", "8", "9">>

IsDigit(c) == \E i \in DOMAIN DigitChars : DigitChars[i] = c

DigitValue(c) == (CHOOSE i \in DOMAIN DigitChars : DigitChars[i] = c) - 1

\* The value of at most nine decimal digits, the last one the units.
GroupValue(ds) ==
  LET n == Len(ds)
      digit(i) == IF i <= n THEN DigitValue(ds[n + 1 - i]) ELSE 0
  IN digit(1) + digit(2) * 10 + digit(3) * 100 + digit(4) * 1000
     + digit(5) * 10000 + digit(6) * 100000 + digit(7) * 1000000
     + digit(8) * 10000000 + digit(9) * 100000000

RECURSIVE StripZeros(_)
StripZeros(ds) ==
  IF ds # <<>> /\ ds[1] = "0" THEN StripZeros(Tail(ds)) ELSE ds

\* The magnitude of a string of at most 27 digits without leading zeros.
Magnitude(sig) ==
  LET n == Len(sig)
  IN <<0,
       GroupValue(SubSeq(sig, 1, n - 18)),
       GroupValue(SubSeq(sig, IF n > 18 THEN n - 17 ELSE 1, n - 9)),
       GroupValue(SubSeq(sig, IF n > 9 THEN n - 8 ELSE 1, n))>>

\* The digits of a decimal integer with an optional sign, or <<>> when the
\* string is not one.
DigitsOf(v) ==
  LET ds == IF v # <<>> /\ v[1] \in {"+", "-"} THEN Tail(v) ELSE v
  IN IF \A i \in DOMAIN ds : IsDigit(ds[i]) THEN ds ELSE <<>>

\* strconv.Atoi(v) for a string v given as its characters: ok is
\* parseErr == nil; the error is a syntax error or a value out of int64.
Atoi(v) ==
  LET ds == DigitsOf(v)
      sig == StripZeros(ds)
      neg == v[1] = "-"
  IN IF ds # <<>> /\ Len(sig) <= 19
          /\ Geq(IF neg THEN TwoTo63 ELSE MaxInt64, Magnitude(sig))
       THEN [ok |-> TRUE, neg |-> neg /\ sig # <<>>, mag |-> Magnitude(sig)]
       ELSE [ok |-> FALSE, neg |-> FALSE, mag |-> ZeroMag]

\* time.Duration(0).
NoDuration == [neg |-> FALSE, mag |-> ZeroMag]

\* retryAfter := time.Duration(0); if the header is set and parses,
\* retryAfter = time.Duration(seconds) * time.Second (an int64 product).
RetryAfterOf(header) ==
  IF header = <<>> THEN NoDuration
  ELSE LET duration ==
             [seconds \in {Atoi(header)} |->
                IF seconds.ok
                  THEN WrapInt64(seconds.neg, TimesSecond(seconds.mag))
                  ELSE NoDuration]
       IN duration[Atoi(header)]

\* Retry-After headers of a response, as characters; <<>> is no header.
RetryAfterHeaders ==
  {<<>>, <<"0">>, <<"5">>, <<"+", "5">>, <<"-", "1">>, <<"5", "s">>,
   <<"9", "2", "2", "3", "3", "7", "2", "0", "3", "6">>,
   <<"9", "2", "2", "3", "3", "7", "2", "0", "3", "7">>,
   <<"9", "9", "9", "9", "9", "9", "9", "9", "9", "9",
     "9", "9", "9", "9", "9", "9", "9", "9", "9", "9">>}

\* What the oracle does with one request: the transport fails, or a response
\* with a status code, a Retry-After header and a JSON body (decodable or
\* not) comes back.
TransportError ==
  [err |-> TRUE, statusCode |-> 0, retryAfter |-> <<>>, decodes |-> FALSE,
   Status |-> "", Accrual |-> NULL]

Exchanges ==
  {TransportError}
  \cup {[err |-> FALSE, statusCode |-> c, retryAfter |-> h, decodes |-> FALSE,
         Status |-> "", Accrual |-> NULL] :
          c \in {200, 204, 429, 404, 500, 503}, h \in RetryAfterHeaders}
  \cup {[err |-> FALSE, statusCode |-> c, retryAfter |-> <<>>,
         decodes |-> TRUE, Status |-> st, Accrual |-> acc] :
          c \in {200, 204, 429, 500},
          st \in {"PROCESSING", "PROCESSED"}, acc \in {NULL, {10}}}

\* Mutant: a 204 is not told apart from the other statuses.
NoContent_Never(statusCode) == FALSE

\* resp.StatusCode == http.StatusNoContent.
NoContent(statusCode) == statusCode = 204

\* Client.GetOrderAccrual after httpClient.Do: (resp, statusCode,
\* retryAfter, err) for the exchange x.
GetOrderAccrual(x) ==
  IF x.err
    THEN Answer(TRUE, 0, NoDuration, FALSE, "", NULL)
  ELSE IF x.statusCode = 429
    THEN Answer(FALSE, x.statusCode, RetryAfterOf(x.retryAfter),
                FALSE, "", NULL)
  ELSE IF NoContent(x.statusCode)
    THEN Answer(FALSE, x.statusCode, NoDuration, FALSE, "", NULL)
  ELSE IF x.statusCode # 200
    THEN Answer(TRUE, x.statusCode, NoDuration, FALSE, "", NULL)
  ELSE IF ~x.decodes
    THEN Answer(TRUE, x.statusCode, NoDuration, FALSE, "", NULL)
  ELSE Answer(FALSE, x.statusCode, NoDuration, TRUE, x.Status, x.Accrual)

\* No GetOrderAccrual is under way.  retryMax is the RetryMax of the
\* httpClient the Client was built with: 0 for the plain http.Client.
IdleCall ==
  [pc |-> "idle", exchange |-> TransportError, sent |-> 0,
   result |-> NoAnswer, retryMax |-> 0]

\* retryClient.RetryMax = 3 of the NewClient built on retryablehttp.
RetryMax == 3

\* retryClient.CheckRetry: a transport error is retried, a 429 is not, and
\* everything else follows retryablehttp.DefaultRetryPolicy (no retry once
\* the context is cancelled; retry on status 0 and on 5xx other than 501).
CheckRetry(x) ==
  IF x.err THEN TRUE
  ELSE IF x.statusCode = 429 THEN FALSE
  ELSE /\ ~cancelled
       /\ \/ x.statusCode = 0
          \/ x.statusCode >= 500 /\ x.statusCode # 501

\* Mutant: a 429 is sent once more before it is reported.
SendsAgain_TooManyRequests(x, sent) == x.statusCode = 429 /\ sent < 2

\* Mutant: the attempts are not counted against RetryMax.
SendsAgain_Unbounded(x, sent) ==
  call.retryMax > 0 /\ CheckRetry(x) /\ sent <= RetryMax + 1

\* httpClient.Do sends the request again while CheckRetry asks for it and
\* retries remain; a plain http.Client (retryMax 0) sends it once and returns
\* the response whatever its status.
SendsAgain(x, sent) == sent <= call.retryMax /\ CheckRetry(x)

\* What httpClient.Do hands to GetOrderAccrual after the last attempt: the
\* response, or the "giving up after N attempt(s)" error of retryablehttp
\* when the retries ran out on an attempt that asked for another.
DoResult(x, sent) ==
  IF call.retryMax > 0 /\ CheckRetry(x) /\ sent > call.retryMax
    THEN TransportError
    ELSE x

\* resp, err := c.httpClient.Do(req): one request is sent.
ClientDo ==
  /\ call.pc = "ready"
  /\ call' = [call EXCEPT !.pc = "responded", !.sent = @ + 1]
  /\ UNCHANGED <<orders, withdrawals, clock, req, started, loop, cancelled,
                 ticker, timer, backoff, queries, budget, accrualClient, web, seen>>

\* The request is sent again (and meets any exchange), or Do returns and the
\* rest of GetOrderAccrual turns the response into the result.
ClientReturn ==
  /\ call.pc = "responded"
  /\ IF SendsAgain(call.exchange, call.sent)
       THEN \E x \in Exchanges :
              call' = [call EXCEPT !.pc = "ready", !.exchange = x]
       ELSE call' = [call EXCEPT !.pc = "returned",
                       !.result = GetOrderAccrual(
                                    DoResult(call.exchange, call.sent))]
  /\ UNCHANGED <<orders, withdrawals, clock, req, started, loop, cancelled,
                 ticker, timer, backoff, queries, budget, accrualClient, web, seen>>

\* --------------------------------------------------- reconciliation loop
\* Rows of S as a sequence in ascending uploaded_at: the row at position i
\* has i - 1 rows of S before it.
OrderByUploaded(S) ==
  CHOOSE sorted \in
    {[i \in 1..Cardinality(rows) |->
        CHOOSE r \in rows :
          Cardinality({x \in rows : x.uploaded < r.uploaded}) = i - 1] :
       rows \in {S}} : TRUE

\* Mutant: the status filter is left out of the SELECT.
GetOrdersForAccrual_AllStatuses(limit) ==
  LET rows == OrderByUploaded(orders)
      batch == [i \in 1..Len(rows) |->
                  [Number |-> rows[i].number, Status |-> rows[i].status]]
  IN SubSeq(batch, 1, Min(Len(batch), limit))

\* Mutant: ORDER BY uploaded_at DESC, the newest orders first.
GetOrdersForAccrual_Newest(limit) ==
  LET rows == OrderByUploadedDesc({r \in orders :
                 r.status \in {OrderStatusNew, OrderStatusProcessing}})
      batch == [i \in 1..Len(rows) |->
                  [Number |-> rows[i].number, Status |-> rows[i].status]]
  IN SubSeq(batch, 1, Min(Len(batch), limit))

\* Mutant: the LIMIT is left out of the SELECT.
GetOrdersForAccrual_NoLimit(limit) ==
  LET rows == OrderByUploaded({r \in orders :
                 r.status \in {OrderStatusNew, OrderStatusProcessing}})
  IN [i \in 1..Len(rows) |->
        [Number |-> rows[i].number, Status |-> rows[i].status]]

\* SELECT number, status FROM orders WHERE status IN ('NEW', 'PROCESSING')
\* ORDER BY uploaded_at LIMIT $3.
GetOrdersForAccrual(limit) ==
  CHOOSE batch \in
    {SubSeq([i \in 1..Len(rows) |->
               [Number |-> rows[i].number, Status |-> rows[i].status]],
            1, Min(Len(rows), limit)) :
       rows \in {OrderByUploaded({r \in orders :
                   r.status \in {OrderStatusNew, OrderStatusProcessing}})}} :
      TRUE

\* Mutant: the status and the accrual are written by two statements and the
\* second one is lost.
UpdateOrderAccrual_StatusOnly(number, status, accrualCents) ==
  {IF r.number = number THEN [r EXCEPT !.status = status] ELSE r : r \in orders}

\* UPDATE orders SET status = $2 [, accrual = $3] WHERE number = $1;
\* accrual is written only when accrualCents is not nil.
UpdateOrderAccrual(number, status, accrualCents) ==
  {IF r.number = number
     THEN [r EXCEPT !.status = status,
                    !.accrual = IF accrualCents = NULL THEN @ ELSE accrualCents]
     ELSE r : r \in orders}

\* Mutant: the default branch of the switch rejects the order.
LocalStatus_DefaultRejects(status) ==
  CASE status \in {"REGISTERED", "PROCESSING"} -> OrderStatusProcessing
    [] status = "PROCESSED" -> OrderStatusProcessed
    [] OTHER -> OrderStatusInvalid

\* switch resp.Status: the local status written for an oracle status, or
\* "" for the default branch (continue, no write).
LocalStatus(status) ==
  CASE status \in {"REGISTERED", "PROCESSING"} -> OrderStatusProcessing
    [] status = "INVALID" -> OrderStatusInvalid
    [] status = "PROCESSED" -> OrderStatusProcessed
    [] OTHER -> ""

\* Mutant: the amount of the answer is taken in every branch of the switch.
AccrualCents_AnyStatus(status, accrual) ==
  IF accrual # NULL THEN {ToCents(CHOOSE v \in accrual : TRUE)} ELSE NULL

\* accrualCents is set only in the PROCESSED branch and only when
\* resp.Accrual # nil: v := int64(*resp.Accrual * 100).
AccrualCents(status, accrual) ==
  IF status = "PROCESSED" /\ accrual # NULL
    THEN {ToCents(CHOOSE v \in accrual : TRUE)}
    ELSE NULL

IdleLoop == [pc |-> "wait", batch |-> <<>>]

\* A cycle is executing: processAccrualBatch has a batch in hand.
CycleRunning == loop.pc \in {"range", "pause"}

\* Mutant: every tick starts a cycle of its own (go s.processAccrualBatch).
CycleMayStart_Always == loop.pc # "stopped"

\* The goroutine of StartAccrualUpdates is back at its select only when
\* processAccrualBatch has returned.
CycleMayStart == loop.pc = "wait"

\* case <-ticker.C: processAccrualBatch fetches the batch.  With a cancelled
\* context, or on a storage error (fetched = FALSE), the query fails and the
\* cycle returns.
BeginCycle(fetched) ==
  /\ CycleMayStart
  /\ ticker
  /\ \E batch \in {IF cancelled \/ ~fetched
                      THEN <<>> ELSE GetOrdersForAccrual(BatchLimit)} :
       loop' = IF batch = <<>> THEN IdleLoop
               ELSE [pc |-> "range", batch |-> batch]
  /\ ticker' = FALSE
  /\ queries' = 0
  /\ UNCHANGED <<orders, withdrawals, clock, req, started, cancelled,
                 timer, backoff, budget, call, accrualClient, web, seen>>

LoopTick == \E fetched \in BOOLEAN : BeginCycle(fetched)

\* Mutant: the select has no case for ctx.Done().
LoopStop_NoDoneCase == FALSE

\* case <-ctx.Done(): the goroutine returns; the deferred ticker.Stop() ends
\* the ticks.
LoopStop ==
  /\ loop.pc = "wait"
  /\ cancelled
  /\ loop' = [IdleLoop EXCEPT !.pc = "stopped"]
  /\ ticker' = FALSE
  /\ UNCHANGED <<orders, withdrawals, clock, req, started, cancelled,
                 timer, backoff, queries, budget, call, accrualClient, web, seen>>

\* Mutant: the range loop does not advance, the same order is taken again.
Continue_SameOrder == [pc |-> "range", batch |-> loop.batch]

\* Mutant: the goroutine returns after one order.
Continue_Stops == [pc |-> "stopped", batch |-> <<>>]

\* continue: the next iteration of the range loop, or the end of the cycle.
Continue ==
  IF Len(loop.batch) > 1
    THEN [pc |-> "range", batch |-> Tail(loop.batch)]
    ELSE IdleLoop

\* Mutant: a 429 answer never arms the timer.
Pauses_Never(retryAfter) == FALSE

\* if retryAfter > 0: the loop waits on a timer of retryAfter.
Pauses(retryAfter) == retryAfter > 0

\* One iteration of the range loop for the order o at the head of the batch:
\* a is what s.accrualClient.GetOrderAccrual(ctx, o.Number) returns (an error
\* when the context is cancelled, and then no request leaves the process).
\* The error of UpdateOrderAccrual is discarded; the UPDATE fails when the
\* context is cancelled and may fail on a storage error (written = FALSE).
ProcessOrder(a, written) ==
  /\ loop.pc = "range"
  /\ cancelled => a.err /\ ~written
  /\ LET o == Head(loop.batch)
         status == LocalStatus(a.Status)
         limited == ~a.err /\ a.statusCode = 429
     IN /\ IF a.err \/ a.statusCode = 0
             THEN loop' = Continue /\ orders' = orders
           ELSE IF a.statusCode = 429
             THEN /\ loop' = IF Pauses(a.retryAfter)
                               THEN [loop EXCEPT !.pc = "pause"]
                               ELSE Continue
                  /\ orders' = orders
           ELSE IF ~a.hasResp \/ status = ""
             THEN loop' = Continue /\ orders' = orders
           ELSE /\ loop' = Continue
                /\ orders' = IF written
                               THEN UpdateOrderAccrual(o.Number, status,
                                      AccrualCents(a.Status, a.Accrual))
                               ELSE orders
        /\ timer' = IF limited /\ Pauses(a.retryAfter)
                      THEN a.retryAfter ELSE timer
        /\ backoff' = IF limited /\ a.retryAfter > 0
                        THEN a.retryAfter ELSE backoff
  /\ queries' = IF cancelled THEN queries ELSE queries + 1
  /\ UNCHANGED <<withdrawals, clock, req, started, cancelled, ticker,
                 budget, call, accrualClient, web>>
  /\ seen' = Witnessed

\* Mutant: timer.C is ready as soon as the timer is created.
TimerFired_AtOnce == TRUE

\* timer.C delivers once the duration of the timer has passed.
TimerFired == timer = 0

\* case <-timer.C: the rate-limit pause is over.
LoopPauseElapsed ==
  /\ loop.pc = "pause"
  /\ TimerFired
  /\ loop' = Continue
  /\ UNCHANGED <<orders, withdrawals, clock, req, started, cancelled,
                 ticker, timer, backoff, queries, budget, call, accrualClient, web, seen>>

\* Mutant: case <-ctx.Done() of the pause leaves the select like the timer
\* does, and the range loop goes on.
LoopPauseCancelled_Continues ==
  /\ loop.pc = "pause"
  /\ cancelled
  /\ loop' = Continue
  /\ timer' = 0
  /\ UNCHANGED <<orders, withdrawals, clock, req, started, cancelled,
                 ticker, backoff, queries, budget, call, accrualClient, web, seen>>

\* case <-ctx.Done() inside the pause: timer.Stop(); return.
LoopPauseCancelled ==
  /\ loop.pc = "pause"
  /\ cancelled
  /\ loop' = IdleLoop
  /\ timer' = 0
  /\ UNCHANGED <<orders, withdrawals, clock, req, started, cancelled,
                 ticker, backoff, queries, budget, call, accrualClient, web, seen>>

\* Mutant: the goroutine is started whether or not there is a client.
NoClient_Ignored == FALSE

\* if s.accrualClient == nil { return }
NoClient == ~accrualClient

\* A service on which StartAccrualUpdates has not been called yet.
NewLoop == [IdleLoop EXCEPT !.pc = "new"]

\* StartAccrualUpdates: without a client it returns and there is no
\* goroutine; with one, the goroutine is started with a fresh ticker.
StartAccrualUpdates ==
  /\ loop.pc = "new"
  /\ loop' = IF NoClient THEN [IdleLoop EXCEPT !.pc = "none"] ELSE IdleLoop
  /\ UNCHANGED <<orders, withdrawals, clock, req, started, cancelled,
                 ticker, timer, backoff, queries, budget, call, accrualClient, web, seen>>

\* The ticker exists from time.NewTicker to the deferred ticker.Stop().
TickerRunning == loop.pc \in {"wait", "range", "pause"}

\* signal.NotifyContext: SIGINT/SIGTERM closes ctx.Done().
Cancel ==
  /\ ~cancelled
  /\ cancelled' = TRUE
  /\ UNCHANGED <<orders, withdrawals, clock, req, started, loop,
                 ticker, timer, backoff, queries, budget, call, accrualClient, web, seen>>

\* One second passes: the ticker of the running loop delivers a tick (a tick
\* is dropped when one is already waiting) and the timers run down.
TimePasses ==
  /\ ticker' = TickerRunning
  /\ timer' = IF timer > 0 THEN timer - 1 ELSE 0
  /\ backoff' = IF backoff > 0 THEN backoff - 1 ELSE 0
  /\ UNCHANGED <<orders, withdrawals, clock, req, started, loop, cancelled,
                 queries, budget, call, accrualClient, web, seen>>

\* ----------------------------------------------------------- HTTP handlers
\* No handler is at work.
IdleWeb == [pc |-> "idle"]

ErrUserNotFound == "user not found"
\* errors.New("invalid credentials")
ErrInvalidCredentials == "invalid credentials"

\* What the SELECT of GetUserByLogin meets: the row of the login, no row, a
\* context deadline, or another storage failure.
Lookups == {"row", "noRows", "deadline", "failure"}

\* PostgresRepository.GetUserByLogin: nil, ErrUserNotFound, or the error of
\* the query wrapped as "get user: ...".
GetUserByLogin(lookup) ==
  CASE lookup = "row" -> ""
    [] lookup = "noRows" -> ErrUserNotFound
    [] lookup = "deadline" -> "get user: context deadline exceeded"
    [] OTHER -> "get user: connection refused"

\* Service.AuthenticateUser: the error of GetUserByLogin, or "invalid
\* credentials" when the hash of login:password differs from the stored
\* one; "" is a nil error.
AuthenticateUser(lookup, hashMatches) ==
  IF GetUserByLogin(lookup) # "" THEN GetUserByLogin(lookup)
  ELSE IF ~hashMatches THEN ErrInvalidCredentials
  ELSE ""

\* The answer of a handler that has written status and, perhaps, the cookie.
Responded(status, cookie) ==
  [web EXCEPT !.pc = "done", !.status = status, !.cookie = cookie]

\* Handler.Login up to the call of the service: the body must decode and
\* name a login and a password, or the answer is 400.
LoginDecode ==
  /\ web.pc = "decode"
  /\ web' = IF ~web.decodes \/ web.login = "" \/ web.password = ""
              THEN Responded(400, FALSE)
              ELSE [web EXCEPT !.pc = "authenticate"]
  /\ UNCHANGED <<orders, withdrawals, clock, req, started, loop, cancelled,
                 ticker, timer, backoff, queries, budget, call, accrualClient, seen>>

\* userID, err := h.service.AuthenticateUser(...).
LoginAuthenticate ==
  /\ web.pc = "authenticate"
  /\ web' = [web EXCEPT !.pc = "respond",
                        !.err = AuthenticateUser(web.lookup, web.hashMatches)]
  /\ UNCHANGED <<orders, withdrawals, clock, req, started, loop, cancelled,
                 ticker, timer, backoff, queries, budget, call, accrualClient, seen>>

\* The status Login answers for an error of AuthenticateUser: 401 for
\* ErrUserNotFound and for "invalid credentials", 500 for any other error.
LoginErrorStatus(err) ==
  IF err = ErrUserNotFound \/ err = ErrInvalidCredentials THEN 401 ELSE 500

\* The rest of Handler.Login: the error answer, or SetAuthCookie and 200.
LoginRespond ==
  /\ web.pc = "respond"
  /\ web' = IF web.err # ""
              THEN Responded(LoginErrorStatus(web.err), FALSE)
              ELSE Responded(200, TRUE)
  /\ UNCHANGED <<orders, withdrawals, clock, req, started, loop, cancelled,
                 ticker, timer, backoff, queries, budget, call, accrualClient, seen>>

\* The loop of IsValidOrderNumber from position i down to the first
\* character: a character that is not a digit ends it with false; every
\* second digit is doubled and reduced by 9 when above 9.
RECURSIVE LuhnLoop(_, _, _, _)
LuhnLoop(number, i, sum, double) ==
  IF i < 1 THEN sum % 10 = 0
  ELSE IF ~IsDigit(number[i]) THEN FALSE
  ELSE LET digit == DigitValue(number[i])
           twice == IF 2 * digit > 9 THEN 2 * digit - 9 ELSE 2 * digit
       IN LuhnLoop(number, i - 1,
                   sum + (IF double THEN twice ELSE digit), ~double)

\* Mutant: the doubling starts with the last digit.
IsValidOrderNumber_DoubleLast(number) ==
  number # <<>> /\ LuhnLoop(number, Len(number), 0, TRUE)

\* Mutant: the empty string passes (its sum is 0).
IsValidOrderNumber_EmptyPasses(number) ==
  LuhnLoop(number, Len(number), 0, FALSE)

\* validation.IsValidOrderNumber for a string given as its characters.
IsValidOrderNumber(number) ==
  number # <<>> /\ LuhnLoop(number, Len(number), 0, FALSE)

\* strings.TrimSpace.
RECURSIVE TrimSpace(_)
TrimSpace(str) ==
  IF str = <<>> THEN str
  ELSE IF Head(str) = " " THEN TrimSpace(Tail(str))
  ELSE IF str[Len(str)] = " " THEN TrimSpace(SubSeq(str, 1, Len(str) - 1))
  ELSE str

\* Characters of a request body.
BodyChars == {DigitChars[i] : i \in DOMAIN DigitChars} \cup {"a", " "}

\* Bodies of at most MaxBodyLen characters.
Bodies == UNION {[1..n -> BodyChars] : n \in 0..MaxBodyLen}

\* Handler.UploadOrder up to the call of the service: 401 without a user in
\* the context, 422 for a number that is not valid.
UploadOrderValidate ==
  /\ web.pc = "upload"
  /\ LET number == TrimSpace(web.body)
     IN web' = IF ~web.authenticated
                 THEN Responded(401, FALSE)
               ELSE IF ~IsValidOrderNumber(number)
                 THEN [Responded(422, FALSE) EXCEPT !.number = number]
               ELSE [web EXCEPT !.pc = "addOrder", !.number = number]
  /\ UNCHANGED <<orders, withdrawals, clock, req, started, loop, cancelled,
                 ticker, timer, backoff, queries, budget, call, accrualClient, seen>>

\* The status UploadOrder answers for what AddOrder returned.
UploadOrderStatus(result) ==
  CASE result = ErrOrderOwnedByAnother -> 409
    [] result = "alreadyExists" -> 200
    [] result = "new" -> 202
    [] OTHER -> 500

\* alreadyExists, err := h.service.AddOrder(ctx, userID, number), and the
\* answer for its result.
UploadOrderAddOrder(result) ==
  /\ web.pc = "addOrder"
  /\ web' = [Responded(UploadOrderStatus(result), FALSE) EXCEPT
               !.called = TRUE, !.registered = web.number]
  /\ UNCHANGED <<orders, withdrawals, clock, req, started, loop, cancelled,
                 ticker, timer, backoff, queries, budget, call, accrualClient, seen>>

\* ------------------------------------------------------------ specification
Init ==
  /\ orders = {}
  /\ withdrawals = {}
  /\ clock = 1
  /\ req = [p \in Procs |-> IdleReq]
  /\ started = 0
  /\ loop = IdleLoop
  /\ cancelled = FALSE
  /\ ticker = FALSE
  /\ timer = 0
  /\ backoff = 0
  /\ queries = 0
  /\ budget = MaxRequests
  /\ call = IdleCall
  /\ accrualClient = TRUE
  /\ seen = [p \in Procs |-> {}]
  /\ web = IdleWeb

Next ==
  \/ \E p \in Procs, u \in Users, n \in Numbers : BeginAddOrder(p, u, n)
  \/ \E p \in Procs : AddOrderInsert(p)
  \/ \E p \in Procs : AddOrderSelect(p)
  \/ \E p \in Procs : AddOrderCommit(p)
  \/ \E p \in Procs, u \in Users, r \in Refs, s \in WithdrawSums :
       BeginCreateWithdrawal(p, u, r, s)
  \/ \E p \in Procs : WithdrawLock(p)
  \/ \E p \in Procs : WithdrawSumAccruals(p)
  \/ \E p \in Procs : WithdrawSumWithdrawals(p)
  \/ \E p \in Procs : WithdrawCheckInsert(p)
  \/ \E p \in Procs : WithdrawCommit(p)
  \/ \E p \in Procs, u \in Users : BeginGetBalance(p, u)
  \/ \E p \in Procs : BalanceSumAccruals(p)
  \/ \E p \in Procs : BalanceSumWithdrawals(p)
  \/ LoopTick
  \/ LoopStop
  \/ \E a \in OracleAnswers, written \in BOOLEAN : ProcessOrder(a, written)
  \/ LoopPauseElapsed
  \/ LoopPauseCancelled
  \/ Cancel
  \/ TimePasses

Spec == Init /\ [][Next]_vars

TypeOK ==
  /\ started \in 0..budget
  /\ cancelled \in BOOLEAN

\* Registration alone: AddOrder requests against the running loop.
NextRegister ==
  \/ \E p \in Procs, u \in Users, n \in Numbers : BeginAddOrder(p, u, n)
  \/ \E p \in Procs : AddOrderInsert(p)
  \/ \E p \in Procs : AddOrderSelect(p)
  \/ \E p \in Procs : AddOrderCommit(p)
  \/ LoopTick
  \/ \E a \in OracleAnswers, written \in BOOLEAN : ProcessOrder(a, written)
  \/ LoopPauseElapsed
  \/ TimePasses

SpecRegister == Init /\ [][NextRegister]_vars

\* Cents the loop can have stored for a PROCESSED order.
ScoredCents == {ToCents(a) : a \in OracleAccruals}

\* Rows the loop can have left PROCESSED, with or without an accrual; order
\* numbers are uploaded in their position in NumberOrder.
NumberOrder == <<"n1", "n2">>

ScoredRows ==
  {[number |-> NumberOrder[i], user |-> u, status |-> OrderStatusProcessed,
    accrual |-> acc, uploaded |-> i] :
     i \in DOMAIN NumberOrder, u \in Users,
     acc \in {NULL} \cup {{c} : c \in ScoredCents}}

\* The withdrawal protocol alone, against a fixed set of scored orders left by
\* earlier registrations and cycles.
InitWithdraw ==
  /\ orders \in {S \in SUBSET ScoredRows :
                   \A r1, r2 \in S : r1.number = r2.number => r1 = r2}
  /\ withdrawals = {}
  /\ clock = Len(NumberOrder) + 1
  /\ req = [p \in Procs |-> IdleReq]
  /\ started = 0
  /\ loop = IdleLoop
  /\ cancelled = FALSE
  /\ ticker = FALSE
  /\ timer = 0
  /\ backoff = 0
  /\ queries = 0
  /\ budget = MaxRequests
  /\ call = IdleCall
  /\ accrualClient = TRUE
  /\ seen = [p \in Procs |-> {}]
  /\ web = IdleWeb

NextWithdraw ==
  \/ \E p \in Procs, u \in Users, r \in Refs, s \in WithdrawSums :
       BeginCreateWithdrawal(p, u, r, s)
  \/ \E p \in Procs : WithdrawLock(p)
  \/ \E p \in Procs : WithdrawSumAccruals(p)
  \/ \E p \in Procs : WithdrawSumWithdrawals(p)
  \/ \E p \in Procs : WithdrawCheckInsert(p)
  \/ \E p \in Procs : WithdrawCommit(p)

SpecWithdraw == InitWithdraw /\ [][NextWithdraw]_vars

\* Orders left in the store by earlier requests and cycles: every status,
\* owned by the first user, uploaded in their position in NumberOrder.
LoopRows ==
  {[number |-> NumberOrder[i], user |-> 1, status |-> st,
    accrual |-> NULL, uploaded |-> i] :
     i \in DOMAIN NumberOrder, st \in OrderStatuses}

\* The reconciliation loop alone, started on a store that already holds
\* orders, with time, cancellation and the oracle as its environment.
InitLoop ==
  /\ orders \in {S \in SUBSET LoopRows :
                   \A r1, r2 \in S : r1.number = r2.number => r1 = r2}
  /\ withdrawals = {}
  /\ clock = Len(NumberOrder) + 1
  /\ req = [p \in Procs |-> IdleReq]
  /\ started = 0
  /\ loop = IdleLoop
  /\ cancelled = FALSE
  /\ ticker = FALSE
  /\ timer = 0
  /\ backoff = 0
  /\ queries = 0
  /\ budget = MaxRequests
  /\ call = IdleCall
  /\ accrualClient = TRUE
  /\ seen = [p \in Procs |-> {}]
  /\ web = IdleWeb

NextLoop ==
  \/ LoopTick
  \/ LoopStop
  \/ \E a \in OracleAnswers, written \in BOOLEAN : ProcessOrder(a, written)
  \/ LoopPauseElapsed
  \/ LoopPauseCancelled
  \/ Cancel
  \/ TimePasses

SpecLoop == InitLoop /\ [][NextLoop]_vars

\* The goroutine of the loop is scheduled whenever it can take a step, time
\* does not stop, and the store does not fail every fetch for ever.
LoopFairness ==
  /\ WF_vars(TimePasses)
  /\ WF_vars(LoopStop)
  /\ SF_vars(BeginCycle(TRUE))
  /\ WF_vars(\E a \in OracleAnswers, written \in BOOLEAN :
               ProcessOrder(a, written))
  /\ WF_vars(LoopPauseElapsed)
  /\ WF_vars(LoopPauseCancelled)

SpecLoopFair == SpecLoop /\ LoopFairness

\* Services built with and without an oracle client (main: accrualClient
\* stays nil when no accrual address is configured), on a store that already
\* holds orders, before StartAccrualUpdates is called.
InitStart ==
  /\ orders \in {S \in SUBSET LoopRows :
                   \A r1, r2 \in S : r1.number = r2.number => r1 = r2}
  /\ withdrawals = {}
  /\ clock = Len(NumberOrder) + 1
  /\ req = [p \in Procs |-> IdleReq]
  /\ started = 0
  /\ loop = NewLoop
  /\ cancelled = FALSE
  /\ ticker = FALSE
  /\ timer = 0
  /\ backoff = 0
  /\ queries = 0
  /\ budget = MaxRequests
  /\ call = IdleCall
  /\ accrualClient \in BOOLEAN
  /\ seen = [p \in Procs |-> {}]
  /\ web = IdleWeb

NextStart ==
  \/ StartAccrualUpdates
  \/ NextLoop

SpecStart == InitStart /\ [][NextStart]_vars

\* Orders of a store read by GetOrdersByUser: three numbers uploaded one
\* after the other, each owned by either user, waiting or scored.
ListNumbers == <<"n1", "n2", "n3">>

ListRows ==
  {[number |-> ListNumbers[i], user |-> u, status |-> sa[1],
    accrual |-> sa[2], uploaded |-> i] :
     i \in DOMAIN ListNumbers, u \in Users,
     sa \in {<<OrderStatusNew, NULL>>, <<OrderStatusProcessed, {29}>>}}

\* Order lists read while the loop updates the store.
InitList ==
  /\ orders \in {S \in SUBSET ListRows :
                   \A r1, r2 \in S : r1.number = r2.number => r1 = r2}
  /\ withdrawals = {}
  /\ clock = Len(ListNumbers) + 1
  /\ req = [p \in Procs |-> IdleReq]
  /\ started = 0
  /\ loop = IdleLoop
  /\ cancelled = FALSE
  /\ ticker = FALSE
  /\ timer = 0
  /\ backoff = 0
  /\ queries = 0
  /\ budget = MaxRequests
  /\ call = IdleCall
  /\ accrualClient = TRUE
  /\ seen = [p \in Procs |-> {}]
  /\ web = IdleWeb

\* Oracle answers that end an order: scored with 0.29, or rejected.
ListAnswers ==
  {Answer(FALSE, 200, 0, TRUE, "PROCESSED", {290}),
   Answer(FALSE, 200, 0, TRUE, "INVALID", NULL)}

NextList ==
  \/ \E p \in Procs, u \in Users : BeginGetOrdersByUser(p, u)
  \/ \E p \in Procs, failed \in BOOLEAN : GetOrdersByUserQuery(p, failed)
  \/ LoopTick
  \/ \E a \in ListAnswers : ProcessOrder(a, TRUE)
  \/ TimePasses

SpecList == InitList /\ [][NextList]_vars

\* Balance reads against withdrawals and the loop: the first user owns the
\* orders of the store, and the oracle scores 0.29 or rejects.
NextBalance ==
  \/ \E p \in Procs : BeginGetBalance(p, 1)
  \/ \E p \in Procs : BalanceSumAccruals(p)
  \/ \E p \in Procs : BalanceSumWithdrawals(p)
  \/ \E p \in Procs, r \in Refs, s \in WithdrawSums :
       BeginCreateWithdrawal(p, 1, r, s)
  \/ \E p \in Procs : WithdrawLock(p)
  \/ \E p \in Procs : WithdrawSumAccruals(p)
  \/ \E p \in Procs : WithdrawSumWithdrawals(p)
  \/ \E p \in Procs : WithdrawCheckInsert(p)
  \/ \E p \in Procs : WithdrawCommit(p)
  \/ LoopTick
  \/ \E a \in ListAnswers : ProcessOrder(a, TRUE)
  \/ TimePasses

SpecBalance == InitLoop /\ [][NextBalance]_vars

\* A backlog: n orders of the first user, uploaded in an order that is not
\* that of their numbers; every seventh is PROCESSED already, the others
\* wait for the oracle.
BacklogStore(n) ==
  {[number |-> ToString(i), user |-> 1,
    status |-> IF i % 7 = 0 THEN OrderStatusProcessed
               ELSE IF i % 2 = 0 THEN OrderStatusProcessing
               ELSE OrderStatusNew,
    accrual |-> NULL, uploaded |-> ((i * 37) % 127) + 1] : i \in 1..n}

\* Sizes of the backlog: 98 to 103 waiting orders, around the batch limit.
BacklogSizes == 114..120

\* The oracle does not know the orders of the backlog yet, fails, or limits
\* the rate without asking for a pause.
BacklogAnswers ==
  {Answer(FALSE, 204, 0, FALSE, "", NULL),
   Answer(TRUE, 0, 0, FALSE, "", NULL),
   Answer(FALSE, 429, 0, FALSE, "", NULL)}

InitBacklog ==
  /\ orders \in {BacklogStore(n) : n \in BacklogSizes}
  /\ withdrawals = {}
  /\ clock = 128
  /\ req = [p \in Procs |-> IdleReq]
  /\ started = 0
  /\ loop = IdleLoop
  /\ cancelled = FALSE
  /\ ticker = FALSE
  /\ timer = 0
  /\ backoff = 0
  /\ queries = 0
  /\ budget = 0
  /\ call = IdleCall
  /\ accrualClient = TRUE
  /\ seen = [p \in Procs |-> {}]
  /\ web = IdleWeb

NextBacklog ==
  \/ LoopTick
  \/ \E a \in BacklogAnswers, written \in BOOLEAN : ProcessOrder(a, written)
  \/ TimePasses

SpecBacklog == InitBacklog /\ [][NextBacklog]_vars

\* The loop goroutine is scheduled, time does not stop, and the store does
\* not fail every fetch for ever.
SpecBacklogFair ==
  /\ SpecBacklog
  /\ WF_vars(TimePasses)
  /\ SF_vars(BeginCycle(TRUE))
  /\ WF_vars(\E a \in BacklogAnswers, written \in BOOLEAN :
               ProcessOrder(a, written))

\* The end-to-end scenario: one client issues these requests one after the
\* other (sums in mills: 500.00 and 0.01), the first as soon as it likes and
\* the others once the order has been scored; the process may be shut down
\* at any moment.
Scenario ==
  <<[op |-> "AddOrder", user |-> 1, key |-> "n1", sum |-> 0],
    [op |-> "GetBalance", user |-> 1, key |-> "", sum |-> 0],
    [op |-> "CreateWithdrawal", user |-> 1, key |-> "r1", sum |-> 500000],
    [op |-> "GetBalance", user |-> 1, key |-> "", sum |-> 0],
    [op |-> "CreateWithdrawal", user |-> 1, key |-> "r2", sum |-> 10]>>

\* The oracle of the scenario: "processing" for an order seen for the first
\* time, "processed" with accrual 500.00 for an order already in progress.
ScenarioAnswer(status) ==
  IF status = OrderStatusNew
    THEN Answer(FALSE, 200, 0, TRUE, "PROCESSING", NULL)
    ELSE Answer(FALSE, 200, 0, TRUE, "PROCESSED", {500000})

\* Some order of the store is PROCESSED.
SomeScored == \E r \in orders : r.status = OrderStatusProcessed

BeginScenarioRequest(p) ==
  /\ \A q \in Procs : Free(q)
  /\ started < Len(Scenario)
  /\ started >= 1 => SomeScored
  /\ LET s == Scenario[started + 1]
     IN CASE s.op = "AddOrder" -> BeginAddOrder(p, s.user, s.key)
          [] s.op = "GetBalance" -> BeginGetBalance(p, s.user)
          [] s.op = "CreateWithdrawal" ->
               BeginCreateWithdrawal(p, s.user, s.key, s.sum)

ScenarioOracle ==
  /\ loop.pc = "range"
  /\ ProcessOrder(ScenarioAnswer(Head(loop.batch).Status), TRUE)

InitScenario ==
  /\ orders = {}
  /\ withdrawals = {}
  /\ clock = 1
  /\ req = [p \in Procs |-> IdleReq]
  /\ started = 0
  /\ loop = IdleLoop
  /\ cancelled = FALSE
  /\ ticker = FALSE
  /\ timer = 0
  /\ backoff = 0
  /\ queries = 0
  /\ budget = Len(Scenario)
  /\ call = IdleCall
  /\ accrualClient = TRUE
  /\ seen = [p \in Procs |-> {}]
  /\ web = IdleWeb

NextScenario ==
  \/ \E p \in Procs : BeginScenarioRequest(p)
  \/ \E p \in Procs : AddOrderInsert(p)
  \/ \E p \in Procs : AddOrderSelect(p)
  \/ \E p \in Procs : AddOrderCommit(p)
  \/ \E p \in Procs : WithdrawLock(p)
  \/ \E p \in Procs : WithdrawSumAccruals(p)
  \/ \E p \in Procs : WithdrawSumWithdrawals(p)
  \/ \E p \in Procs : WithdrawCheckInsert(p)
  \/ \E p \in Procs : WithdrawCommit(p)
  \/ \E p \in Procs : BalanceSumAccruals(p)
  \/ \E p \in Procs : BalanceSumWithdrawals(p)
  \/ LoopTick
  \/ ScenarioOracle
  \/ TimePasses
  \/ Cancel
  \/ LoopStop

SpecScenario == InitScenario /\ [][NextScenario]_vars

\* One GetOrderAccrual against every exchange the oracle can produce.
InitClient ==
  /\ orders = {}
  /\ withdrawals = {}
  /\ clock = 1
  /\ req = [p \in Procs |-> IdleReq]
  /\ started = 0
  /\ loop = IdleLoop
  /\ cancelled = FALSE
  /\ ticker = FALSE
  /\ timer = 0
  /\ backoff = 0
  /\ queries = 0
  /\ budget = 0
  /\ call \in {[IdleCall EXCEPT !.pc = "ready", !.exchange = x] :
                 x \in Exchanges}
  /\ accrualClient = TRUE
  /\ seen = [p \in Procs |-> {}]
  /\ web = IdleWeb

NextClient ==
  \/ ClientDo
  \/ ClientReturn

SpecClient == InitClient /\ [][NextClient]_vars

\* One GetOrderAccrual through either httpClient a NewClient builds: the plain
\* http.Client or the retryablehttp client with RetryMax retries.
InitTransport ==
  /\ orders = {}
  /\ withdrawals = {}
  /\ clock = 1
  /\ req = [p \in Procs |-> IdleReq]
  /\ started = 0
  /\ loop = IdleLoop
  /\ cancelled = FALSE
  /\ ticker = FALSE
  /\ timer = 0
  /\ backoff = 0
  /\ queries = 0
  /\ budget = 0
  /\ call \in {[IdleCall EXCEPT !.pc = "ready", !.exchange = x,
                                !.retryMax = m] :
                 x \in Exchanges, m \in {0, RetryMax}}
  /\ accrualClient = TRUE
  /\ seen = [p \in Procs |-> {}]
  /\ web = IdleWeb

\* Every attempt ends: http.Client.Timeout bounds a request, and the waits
\* between attempts are bounded by RetryWaitMax.
SpecTransport ==
  InitTransport /\ [][NextClient]_vars /\ WF_vars(NextClient)

\* One POST /api/user/login: any body, any credentials, any outcome of the
\* user lookup.
InitLogin ==
  /\ orders = {}
  /\ withdrawals = {}
  /\ clock = 1
  /\ req = [p \in Procs |-> IdleReq]
  /\ started = 0
  /\ loop = IdleLoop
  /\ cancelled = FALSE
  /\ ticker = FALSE
  /\ timer = 0
  /\ backoff = 0
  /\ queries = 0
  /\ budget = 0
  /\ call = IdleCall
  /\ accrualClient = TRUE
  /\ seen = [p \in Procs |-> {}]
  /\ web \in {[pc |-> "decode", decodes |-> dec, login |-> l, password |-> pw,
               lookup |-> lk, hashMatches |-> m, err |-> "", status |-> 0,
               cookie |-> FALSE] :
                dec \in BOOLEAN, l \in {"", "user"}, pw \in {"", "pass"},
                lk \in Lookups, m \in BOOLEAN}

NextLogin ==
  \/ LoginDecode
  \/ LoginAuthenticate
  \/ LoginRespond

SpecLogin == InitLogin /\ [][NextLogin]_vars

\* One POST /api/user/orders with any body, with or without a user.
\* called tells that AddOrder was called, registered with which number.
InitUpload ==
  /\ orders = {}
  /\ withdrawals = {}
  /\ clock = 1
  /\ req = [p \in Procs |-> IdleReq]
  /\ started = 0
  /\ loop = IdleLoop
  /\ cancelled = FALSE
  /\ ticker = FALSE
  /\ timer = 0
  /\ backoff = 0
  /\ queries = 0
  /\ budget = 0
  /\ call = IdleCall
  /\ accrualClient = TRUE
  /\ seen = [p \in Procs |-> {}]
  /\ web \in {[pc |-> "upload", authenticated |-> au, body |-> b,
               number |-> <<>>, called |-> FALSE, registered |-> <<>>,
               status |-> 0,
               cookie |-> FALSE] :
                au \in BOOLEAN, b \in Bodies}

NextUpload ==
  \/ UploadOrderValidate
  \/ \E result \in {"new", "alreadyExists", ErrOrderOwnedByAnother, ErrStorage} :
       UploadOrderAddOrder(result)

SpecUpload == InitUpload /\ [][NextUpload]_vars

\* ------------------------------------------------------------------ claims
\* Rows of a store with the given order number.
RowsOf(rows, number) == {r \in rows : r.number = number}

\* The step in which goroutine p returns from AddOrder.
AddOrderReturns(p) ==
  /\ req[p].op = "AddOrder"
  /\ req[p].pc = "commit"
  /\ req'[p].pc = "done"

\* C5: registration is idempotent for the owner.  A Register of a number that
\* has no row yet returns alreadyExists = false and leaves exactly one row,
\* owned by the caller; a Register of a number the caller already owns returns
\* alreadyExists = true without error and leaves the one row as it was.
C5_IdempotentRegister ==
  [][\A p \in Procs :
       AddOrderReturns(p) =>
         LET before == RowsOf(orders, req[p].key)
             after == RowsOf(orders', req[p].key)
         IN /\ before = {} =>
                 /\ req'[p].result = "new"
                 /\ Cardinality(after) = 1
                 /\ \A r \in after : r.user = req[p].user
            /\ (\E r \in before : r.user = req[p].user) =>
                 /\ req'[p].result = "alreadyExists"
                 /\ orders' = orders
                 /\ Cardinality(after) = 1]_vars

\* A second registration by the owner has returned alreadyExists = true.
C5_Witness ==
  \E p \in Procs :
    /\ req[p].pc = "done"
    /\ req[p].result = "alreadyExists"
    /\ \A n \in Numbers : Cardinality(RowsOf(orders, n)) <= 1

\* C6: a Register of a number owned by another user fails with
\* ErrOrderOwnedByAnother, adds no row and leaves the owner as it was.
C6_OwnershipConflict ==
  [][\A p \in Procs :
       (/\ AddOrderReturns(p)
        /\ \E r \in RowsOf(orders, req[p].key) : r.user # req[p].user) =>
         /\ req'[p].result = ErrOrderOwnedByAnother
         /\ orders' = orders]_vars

\* A registration has been refused because of another owner.
C6_Witness ==
  \E p \in Procs :
    /\ req[p].pc = "done"
    /\ req[p].result = ErrOrderOwnedByAnother
    /\ orders # {}

\* Uncommitted order rows of all transactions.
AllPendingOrders ==
  UNION {IF req[q].op = "AddOrder" THEN req[q].pend ELSE {} : q \in Procs}

\* C7: of concurrent Registers of one unseen number exactly one inserts; no
\* second row is ever inserted, committed or not; a caller that did not
\* insert has observed the committed owner (never "no owner"), and a caller
\* that inserted observes itself.
C7_ConcurrentRegister ==
  /\ \A n \in Numbers :
       Cardinality(RowsOf(orders \cup AllPendingOrders, n)) <= 1
  /\ \A p \in Procs :
       (req[p].op = "AddOrder" /\ req[p].pc = "commit") =>
         /\ req[p].existingUserID \in Users
         /\ req[p].inserted =>
              /\ req[p].existingUserID = req[p].user
              /\ req[p].pend # {}
         /\ ~req[p].inserted =>
              /\ req[p].pend = {}
              /\ \E r \in RowsOf(orders, req[p].key) :
                   r.user = req[p].existingUserID
  /\ \A p \in Procs : req[p].pc = "done" => req[p].result # ErrStorage

\* Two Registers of one number are in flight: one has inserted and not yet
\* committed, the other, of a different user, is at its INSERT.
C7_Witness ==
  \E p, q \in Procs :
    /\ p # q
    /\ req[p].op = "AddOrder" /\ req[q].op = "AddOrder"
    /\ req[p].key = req[q].key
    /\ req[p].user # req[q].user
    /\ req[p].pend # {}
    /\ req[q].pc = "insert"

\* The ledger view of a store, without the floor: accrued minus withdrawn.
Current(rows, ws, userID) ==
  SumAccruals(rows, userID) - SumWithdrawals(ws, userID)

\* C1: whatever the interleaving of the lock, read, insert and commit steps
\* of concurrent withdrawals against a fixed set of scored orders, the
\* amounts of the withdrawals of a user that succeeded sum to at most the
\* accruals of the user's PROCESSED orders.
C1_NoConcurrentOverdraft ==
  \A u \in Users :
    SumWithdrawals(withdrawals, u) > 0 =>
      SumWithdrawals(withdrawals, u) <= SumAccruals(orders, u)

\* Two withdrawals of one user are in flight: one has inserted under the row
\* lock and is about to commit, the other waits for the lock.
C1_Witness ==
  \E p, q \in Procs :
    /\ p # q
    /\ req[p].op = "CreateWithdrawal" /\ req[q].op = "CreateWithdrawal"
    /\ req[p].user = req[q].user
    /\ req[p].pc = "commit"
    /\ req[q].pc = "lock"

\* The step in which a withdrawal passes or fails the balance check.
WithdrawDecides(p) ==
  /\ req[p].op = "CreateWithdrawal"
  /\ req[p].pc = "check"
  /\ req'[p].pc # "check"

\* The step in which a withdrawal commits.
WithdrawCommits(p) ==
  /\ req[p].op = "CreateWithdrawal"
  /\ req[p].pc = "commit"
  /\ req'[p].pc # "commit"

\* The row a withdrawal request inserts.
WithdrawalRow(p) ==
  [user |-> req[p].user, order |-> req[p].key, sum |-> req[p].sumCents]

\* C3 as stated: a withdrawal of a positive amount succeeds exactly when the
\* amount is at most the current balance of the store, and fails with
\* ErrInsufficientBalance, writing nothing, when it is larger.
C3_SucceedsIffCovered ==
  [][\A p \in Procs :
       /\ WithdrawDecides(p) =>
            LET current == Current(orders, withdrawals, req[p].user)
            IN /\ req[p].sumCents <= current =>
                    /\ req'[p].pc = "commit"
                    /\ req'[p].pend = {WithdrawalRow(p)}
               /\ req[p].sumCents > current =>
                    /\ req'[p].result = ErrInsufficientBalance
                    /\ withdrawals' = withdrawals /\ orders' = orders
       /\ WithdrawCommits(p) =>
            /\ req'[p].result = "ok"
            /\ withdrawals' = withdrawals \cup {WithdrawalRow(p)}
            /\ orders' = orders]_vars

\* C3 amended: a withdrawal of a positive amount fails with
\* ErrInsufficientBalance exactly when the amount is larger than the current
\* balance of the store (an amount equal to it passes), and then writes
\* nothing; an amount that is covered succeeds when no withdrawal has the
\* reference yet, and otherwise fails with a storage error, writing nothing.
C3_SucceedsIffCoveredAndFreshReference ==
  [][\A p \in Procs :
       /\ WithdrawDecides(p) =>
            LET current == Current(orders, withdrawals, req[p].user)
                used == \E w \in withdrawals : w.order = req[p].key
            IN /\ req[p].sumCents > current <=>
                    req'[p].result = ErrInsufficientBalance
               /\ (req[p].sumCents <= current /\ ~used) =>
                    /\ req'[p].pc = "commit"
                    /\ req'[p].pend = {WithdrawalRow(p)}
               /\ (req[p].sumCents <= current /\ used) =>
                    req'[p].result = ErrStorage
               /\ req'[p].pc = "done" =>
                    withdrawals' = withdrawals /\ orders' = orders
       /\ WithdrawCommits(p) =>
            /\ req'[p].result = "ok"
            /\ withdrawals' = withdrawals \cup {WithdrawalRow(p)}
            /\ orders' = orders]_vars

\* A withdrawal of exactly the balance has succeeded: the user has a
\* withdrawal and nothing is left.
C3_Witness ==
  \E p \in Procs, u \in Users :
    /\ req[p].pc = "done" /\ req[p].result = "ok"
    /\ SumWithdrawals(withdrawals, u) > 0
    /\ Current(orders, withdrawals, u) = 0

\* C4: a withdrawal whose sum is below one cent (negative, zero or a positive
\* fraction of a cent) returns the validation error, which is not
\* ErrInsufficientBalance, in its first step: it takes no lock, reads nothing
\* and writes nothing.
C4_NonPositiveRefused ==
  [][\A p \in Procs, u \in Users, r \in Refs, s \in WithdrawSums :
       (s < 10 /\ BeginCreateWithdrawal(p, u, r, s)) =>
         /\ req'[p].pc = "done"
         /\ req'[p].result = ErrSumNotPositive
         /\ req'[p].result # ErrInsufficientBalance
         /\ req'[p].pend = {}
         /\ withdrawals' = withdrawals /\ orders' = orders]_vars

\* A withdrawal has been refused for its sum while the store is untouched.
C4_Witness ==
  \E p \in Procs :
    /\ req[p].pc = "done"
    /\ req[p].result = ErrSumNotPositive
    /\ withdrawals = {}

\* C2 as stated: in every state of the store, for every user, the
\* withdrawals sum to at most the accruals of the user's PROCESSED orders
\* (the unfloored current balance is never negative).
C2_NeverOverdrawn ==
  \A u \in Users : Current(orders, withdrawals, u) >= 0

\* C8: an order number has at most one row, and a row is never removed and
\* never changes its owner, whatever step is taken.
C8_NumberUniqueOwnerFixed ==
  [][/\ \A n \in Numbers : Cardinality(RowsOf(orders', n)) <= 1
     /\ \A r \in orders :
          \E r2 \in orders' : r2.number = r.number /\ r2.user = r.user]_vars

\* Two users own an order each and the loop has scored one of them.
C8_Witness ==
  \E r1, r2 \in orders :
    /\ r1.user # r2.user
    /\ r1.number # r2.number
    /\ r1.status = OrderStatusProcessed

\* Status changes the order state machine allows.
StatusTransitions ==
  {<<OrderStatusNew, OrderStatusProcessing>>,
   <<OrderStatusNew, OrderStatusProcessed>>,
   <<OrderStatusNew, OrderStatusInvalid>>,
   <<OrderStatusProcessing, OrderStatusProcessed>>,
   <<OrderStatusProcessing, OrderStatusInvalid>>}

\* C9: a step changes the status of an order only along NEW -> PROCESSING,
\* NEW -> PROCESSED, NEW -> INVALID, PROCESSING -> PROCESSED and
\* PROCESSING -> INVALID; no order returns to NEW and a PROCESSED or INVALID
\* order keeps its status.
C9_StatusTransitions ==
  [][\A r \in orders : \A r2 \in RowsOf(orders', r.number) :
       \/ r2.status = r.status
       \/ <<r.status, r2.status>> \in StatusTransitions]_vars

\* A cycle is working on an order while another order is already terminal.
C9_Witness ==
  /\ loop.pc = "range"
  /\ \E r \in orders : r.status \in {OrderStatusProcessed, OrderStatusInvalid}
  /\ \E r \in orders : r.status = OrderStatusProcessing

\* What GetBalance returns on a store that no write is changing.
BalanceView(rows, ws, userID) ==
  [current |-> FloorAtZero(Current(rows, ws, userID)),
   withdrawn |-> SumWithdrawals(ws, userID)]

\* The cents of a decimal amount with two decimals, given in mills.
ExactCents(m) == m \div 10

\* An oracle answer 200 "PROCESSED" that carries an accrual.
ProcessedWithAccrual(a) ==
  /\ ~a.err /\ a.statusCode = 200 /\ a.hasResp
  /\ a.Status = "PROCESSED"
  /\ a.Accrual # NULL

\* C10 as stated: a newly registered order is NEW and has no accrual, and the
\* iteration of a cycle that gets "PROCESSED" with amount a for a NEW order
\* leaves it PROCESSED with a stored as cents, the balance of its owner
\* larger by exactly a and the withdrawn total as it was.
C10_ScoredAmountIsReported ==
  [][/\ \A r \in orders' :
          RowsOf(orders, r.number) = {} =>
            r.status = OrderStatusNew /\ r.accrual = NULL
     /\ \A a \in OracleAnswers :
          (/\ ProcessedWithAccrual(a)
           /\ loop.pc = "range"
           /\ \E r \in RowsOf(orders, Head(loop.batch).Number) :
                r.status = OrderStatusNew
           /\ ProcessOrder(a, TRUE)) =>
            LET amount == ExactCents(CHOOSE v \in a.Accrual : TRUE)
                old == CHOOSE r \in RowsOf(orders, Head(loop.batch).Number) : TRUE
                before == BalanceView(orders, withdrawals, old.user)
                after == BalanceView(orders', withdrawals', old.user)
            IN /\ \A r \in RowsOf(orders', old.number) :
                    r.status = OrderStatusProcessed /\ r.accrual = {amount}
               /\ after.current = before.current + amount
               /\ after.withdrawn = before.withdrawn]_vars

\* ------------------------------------------------------- claims: the loop
\* The order with the given number is in the store and not terminal.
NonTerminal(number) ==
  \E r \in orders :
    r.number = number /\ r.status \in {OrderStatusNew, OrderStatusProcessing}

\* The next step of the loop queries the oracle for the given number.
AboutToQuery(number) ==
  loop.pc = "range" /\ Head(loop.batch).Number = number

\* A step in which a request is sent to the oracle.
QueryIssued == queries' = queries + 1

\* The answers RateLimited(retryAfter = d).
RateLimited(a) == ~a.err /\ a.statusCode = 429

\* No order number is twice in the batch of the running cycle.
BatchDistinct ==
  \A i, j \in DOMAIN loop.batch :
    loop.batch[i].Number = loop.batch[j].Number => i = j

\* C11: after an answer RateLimited(d) no oracle query is issued until d
\* seconds have passed, and with d = 0 the loop goes on to the next order in
\* the same step; the order that was answered keeps its status, leaves the
\* batch of the running cycle (it is not queried again in that cycle), and,
\* unless the process is cancelled, is at the head of a later batch again.
C11_Backpressure ==
  /\ [][QueryIssued => backoff = 0]_vars
  /\ [][\A a \in OracleAnswers, written \in BOOLEAN :
          (RateLimited(a) /\ ProcessOrder(a, written)) =>
             /\ orders' = orders
             /\ backoff' = IF a.retryAfter > 0 THEN a.retryAfter ELSE backoff
             /\ a.retryAfter > 0 => loop' = [loop EXCEPT !.pc = "pause"]
             /\ a.retryAfter <= 0 => loop' = Continue]_vars
  /\ [][loop.pc = "pause" /\ loop'.pc # "pause" =>
          /\ orders' = orders
          /\ loop' \in {Continue, IdleLoop}]_vars
  /\ []BatchDistinct
  /\ \A n \in Numbers :
       (NonTerminal(n) /\ ~cancelled) ~> (AboutToQuery(n) \/ cancelled)

\* A pause of five seconds has run its full length and the order that was
\* answered 429 is still waiting at the head of the batch, not terminal.
C11_Witness ==
  /\ loop.pc = "pause"
  /\ timer = 0
  /\ backoff = 0
  /\ NonTerminal(Head(loop.batch).Number)
  /\ ~cancelled

\* C12: a cycle starts only when no cycle is executing, and a tick that
\* arrives while a cycle is executing (the cycle has overrun the interval)
\* stays in the channel until that cycle has finished.
C12_OneCycleAtATime ==
  /\ [][LoopTick => ~CycleRunning]_vars
  /\ [][CycleRunning /\ ticker => ticker']_vars

\* A cycle paused for a rate limit has outlasted the interval: the next tick
\* is waiting while the pause still has time to run.
C12_Witness ==
  /\ loop.pc = "pause"
  /\ ticker
  /\ timer > 0
  /\ timer < backoff + 1
  /\ queries > 0

\* Every order of the store is PROCESSED or INVALID.
AllTerminal ==
  \A r \in orders : r.status \in {OrderStatusProcessed, OrderStatusInvalid}

\* A step that changes or removes a row of orders.
OrderWritten == \E r \in orders : r \notin orders'

\* C13: on a store whose orders are all terminal no cycle has a batch in
\* hand, a cycle that starts fetches the empty batch and is over in the same
\* step, and no step sends an oracle request or writes an order.
C13_IdleOnTerminalStore ==
  /\ [](AllTerminal => ~CycleRunning)
  /\ [][AllTerminal /\ LoopTick =>
          loop' = IdleLoop /\ queries' = 0 /\ ~OrderWritten]_vars
  /\ [][AllTerminal => ~QueryIssued /\ ~OrderWritten]_vars

\* The last cycle ran on a store whose orders were all terminal already: it
\* sent no request, and the loop waits for the next tick.
C13_Witness ==
  /\ orders # {}
  /\ AllTerminal
  /\ loop.pc = "wait"
  /\ queries = 0
  /\ ~ticker
  /\ ~cancelled

\* ------------------------------------------------- claims: the scenario
\* The request of the scenario that was issued last has returned.
Returned(k) == started = k /\ \A q \in Procs : Free(q)

\* C14: in the end-to-end scenario the order is NEW once registered,
\* PROCESSING after the cycle answered "processing", and PROCESSED with 50000
\* cents after the cycle answered "processed" 500.00; then GetBalance returns
\* (50000, 0), the withdrawal of 500.00 succeeds and is the only withdrawal,
\* GetBalance returns (0, 50000), and the withdrawal of 0.01 fails with
\* ErrInsufficientBalance and writes nothing.
C14_EndToEnd ==
  /\ \A r \in orders :
       /\ r.number = "n1" /\ r.user = 1
       /\ r.accrual = IF r.status = OrderStatusProcessed THEN {50000} ELSE NULL
       /\ r.status = OrderStatusNew => queries = 0 \/ loop.pc = "range"
       /\ r.status # OrderStatusInvalid
  /\ Returned(1) => req[1].result = "new" /\ Cardinality(orders) = 1
  /\ Returned(2) =>
       /\ req[1].result = "ok"
       /\ req[1].current = 50000 /\ req[1].withdrawnTotal = 0
  /\ started <= 2 => withdrawals = {}
  /\ Returned(3) =>
       /\ req[1].result = "ok"
       /\ withdrawals = {[user |-> 1, order |-> "r1", sum |-> 50000]}
  /\ Returned(4) =>
       /\ req[1].result = "ok"
       /\ req[1].current = 0 /\ req[1].withdrawnTotal = 50000
  /\ Returned(5) =>
       /\ req[1].result = ErrInsufficientBalance
       /\ withdrawals = {[user |-> 1, order |-> "r1", sum |-> 50000]}

\* The whole scenario has run: the last withdrawal has been refused.
C14_Witness ==
  /\ Returned(5)
  /\ req[1].result = ErrInsufficientBalance
  /\ \E r \in orders : r.status = OrderStatusProcessed /\ r.accrual = {50000}
  /\ \E w \in withdrawals : w.sum = 50000

\* ---------------------------------------------- claims: parallel withdrawals
\* A withdrawal is between its first statement and its return.
Withdrawing(p) ==
  req[p].op = "CreateWithdrawal" /\ req[p].pc \notin {"idle", "done"}

\* The withdrawal of p cannot take its next step: it waits for the row lock
\* of its user, or its INSERT waits for a transaction that holds an
\* uncommitted withdrawal with the same order_number.
WaitsForLock(p) ==
  Withdrawing(p) /\ req[p].pc = "lock" /\ ~CanLockUser(p, req[p].user)

WaitsForInsert(p) ==
  /\ Withdrawing(p) /\ req[p].pc = "check"
  /\ ~Insufficient(req[p].sumCents,
                   req[p].accrualTotal - req[p].withdrawnTotal)
  /\ WithdrawalInsertMustWait(p, req[p].key)

\* C15 as stated: a withdrawal that waits is waiting for another withdrawal
\* of its own user; a withdrawal of another user never makes it wait,
\* whatever the references.
C15_OtherUsersNeverBlock ==
  \A p \in Procs :
    (WaitsForLock(p) \/ WaitsForInsert(p)) =>
       \E q \in Procs \ {p} : Withdrawing(q) /\ req[q].user = req[p].user

\* C15 amended: a withdrawal waits for the row lock only while another
\* withdrawal of its own user holds it, and at its INSERT only while a
\* withdrawal of another user holds an uncommitted row with the same
\* reference; withdrawals of different users with different references
\* never wait for each other.  A covered withdrawal fails (storage error)
\* only when a committed withdrawal has its reference.
C15_OtherUsersBlockOnlyOnSharedReference ==
  /\ [](\A p \in Procs :
          /\ WaitsForLock(p) =>
               \E q \in Procs \ {p} : HoldsUserLock(q, req[p].user)
          /\ WaitsForInsert(p) =>
               \E q \in Procs \ {p} :
                 /\ Withdrawing(q) /\ req[q].user # req[p].user
                 /\ \E w \in req[q].pend : w.order = req[p].key
          /\ \A q \in Procs \ {p} :
               (Withdrawing(p) /\ Withdrawing(q)
                  /\ req[p].user # req[q].user /\ req[p].key # req[q].key)
                 => ~WaitsForLock(p) /\ ~WaitsForInsert(p))
  /\ [][\A p \in Procs :
          (Withdrawing(p) /\ req'[p].result = ErrStorage) =>
             WithdrawalConflict(req[p].key)]_vars

\* Two withdrawals of different users with different references hold their
\* row locks at the same time, both with their row inserted.
C15_Witness ==
  \E p, q \in Procs :
    /\ req[p].user # req[q].user
    /\ req[p].key # req[q].key
    /\ HoldsUserLock(p, req[p].user) /\ req[p].pc = "commit"
    /\ HoldsUserLock(q, req[q].user) /\ req[q].pc = "commit"

\* ------------------------------------------------------ claims: GetBalance
\* C16: a GetBalance during which no order of the user was written returns
\* withdrawn = the sum of the user's withdrawals and current = the sum of
\* the accruals of the user's PROCESSED orders minus withdrawn.
C16_BalanceIsLedgerView ==
  [][\A p \in Procs :
       (/\ BalanceSumWithdrawals(p)
        /\ req[p].accrualTotal = SumAccruals(orders, req[p].user)) =>
          /\ req'[p].withdrawnTotal = SumWithdrawals(withdrawals, req[p].user)
          /\ req'[p].current =
               Current(orders, withdrawals, req[p].user)]_vars

\* ------------------------------------------- claims: the life of the loop
\* C17: the loop stops only after cancellation.  Whatever the oracle answers
\* (an error, a rate limit, an unknown status) and whether or not the write
\* succeeds, the loop goes on with the rest of the batch, pauses, or waits
\* for the next tick; a failed fetch ends only that cycle; and unless the
\* process is cancelled, cycles start again and again.
C17_OnlyCancellationStops ==
  /\ [](loop.pc = "stopped" => cancelled)
  /\ [][\A a \in OracleAnswers, written \in BOOLEAN :
          ProcessOrder(a, written) =>
             /\ loop'.pc \in {"range", "pause", "wait"}
             /\ loop'.pc = "range" => loop'.batch = Tail(loop.batch)
             /\ loop'.pc = "pause" => loop'.batch = loop.batch
             /\ loop'.pc = "wait" => Len(loop.batch) = 1]_vars
  /\ [][BeginCycle(FALSE) => loop'.pc = "wait"]_vars
  /\ (<>cancelled \/ []<><<LoopTick>>_vars)

\* The first order of a batch of two was queried and nothing was written
\* (an error, a rate limit, no record, or a failed write); the loop is about
\* to query the second.
C17_Witness ==
  /\ ~cancelled
  /\ loop.pc = "range"
  /\ Len(loop.batch) = 1
  /\ queries = 1
  /\ Cardinality(orders) = 2
  /\ \A r \in orders : r.status = OrderStatusNew

\* C18: once the context is cancelled the loop stops, wherever it is (at
\* the select, in a pause, in the middle of a batch); and after cancellation
\* no oracle request is sent and no order is written, so a cycle that starts
\* after it is over in the same step.
C18_CancellationStopsTheLoop ==
  /\ cancelled ~> (loop.pc = "stopped")
  /\ [][cancelled /\ LoopTick => loop' = IdleLoop]_vars
  /\ [][cancelled => ~QueryIssued /\ ~OrderWritten]_vars
  /\ [][cancelled /\ loop.pc = "pause" /\ timer > 0 /\ loop'.pc # "pause" =>
          loop' = IdleLoop]_vars

\* The loop was stopped out of a rate-limit pause that had not run out.
C18_Witness ==
  /\ cancelled
  /\ loop.pc = "stopped"
  /\ backoff > 0
  /\ \E r \in orders : r.status \in {OrderStatusNew, OrderStatusProcessing}

\* --------------------------------------------------- claims: the client
\* The call has returned for a response (not a transport error).
ReturnedFor(statusCodes) ==
  /\ call.pc = "returned"
  /\ ~call.exchange.err
  /\ call.exchange.statusCode \in statusCodes

\* The Retry-After header as a duration, in exact arithmetic: so many
\* seconds when the header is a decimal integer, zero when it is absent or
\* not an integer.
HeaderSeconds(header) ==
  LET ds == DigitsOf(header)
      mag == TimesSecond(Magnitude(StripZeros(ds)))
  IN IF ds = <<>> THEN NoDuration
     ELSE [neg |-> header[1] = "-" /\ mag # ZeroMag, mag |-> mag]

\* C19: a Query that receives a 429 has sent one request, and returns no
\* response, code 429, no error, and retryAfter equal to the Retry-After
\* header in seconds (zero without a header or with one that is not an
\* integer).
C19_RateLimitedCarriesHeader ==
  ReturnedFor({429}) =>
    /\ call.sent = 1
    /\ call.result = Answer(FALSE, 429, HeaderSeconds(call.exchange.retryAfter),
                            FALSE, "", NULL)

ReturnedForFailure ==
  /\ call.pc = "returned"
  /\ \/ call.exchange.err
     \/ call.exchange.statusCode \in {500, 503}

StatusesKept ==
  \A r \in orders : \E r2 \in orders' :
    r2.number = r.number /\ r2.status = r.status /\ r2.accrual = r.accrual

\* C22: on a service without an oracle client StartAccrualUpdates returns
\* without starting the goroutine: the loop never waits for a tick, runs a
\* cycle or pauses, no tick is ever pending, no oracle query is issued, and no
\* step changes the status of an order.
C22_NoClientNoLoop ==
  /\ [](~accrualClient =>
          /\ loop.pc \in {"new", "none"}
          /\ ~ticker
          /\ queries = 0)
  /\ [][~accrualClient => StatusesKept /\ queries' = queries]_vars

\* StartAccrualUpdates has returned on a service without a client whose store
\* holds an order waiting for the oracle, and the process is shutting down.
C22_Witness ==
  /\ ~accrualClient
  /\ loop.pc = "none"
  /\ cancelled
  /\ \E r \in orders : r.status = OrderStatusNew

\* C23: whenever AuthenticateUser returned an error, of whatever kind, Login
\* has answered 401 Unauthorized and has set no auth cookie.
C23_LoginErrorIsUnauthorized ==
  web.pc = "done" /\ web.err # "" =>
    web.status = 401 /\ ~web.cookie

\* The step in which goroutine p returns a list from GetOrdersByUser.
ListReturns(p) ==
  /\ req[p].op = "GetOrdersByUser"
  /\ req'[p].pc = "done"
  /\ req'[p].result = "ok"

\* list holds one entry for each row of rows owned by user and no other
\* entry, each with the status and the amount (mills) of its row, from the
\* newest upload to the oldest.
IsListOf(list, rows, user) ==
  /\ \A r \in rows : r.user = user =>
       \E i \in DOMAIN list :
         /\ list[i].Number = r.number
         /\ list[i].Status = r.status
         /\ list[i].UploadedAt = r.uploaded
         /\ list[i].Accrual = {c * 10 : c \in r.accrual}
  /\ \A i \in DOMAIN list :
       \E r \in rows : r.user = user /\ r.number = list[i].Number
  /\ \A i, j \in DOMAIN list : i # j => list[i].Number # list[j].Number
  /\ \A i, j \in DOMAIN list : i < j => list[i].UploadedAt >= list[j].UploadedAt

\* C24: the list GetOrdersByUser returns for a user is exactly the orders
\* that user owns in the store at the time of the query, each with its
\* current status and amount, newest first, and holds no order of another
\* user.
C24_ListIsTheUsersOrders ==
  [][\A p \in Procs :
       ListReturns(p) => IsListOf(req'[p].list, orders, req[p].user)]_vars

\* Two or more orders have been listed for a user, one of them scored, while
\* the store also holds an order of another user.
C24_Witness ==
  \E p \in Procs :
    /\ req[p].pc = "done"
    /\ Len(req[p].list) >= 2
    /\ \E i \in DOMAIN req[p].list : req[p].list[i].Accrual # NULL
    /\ \E r \in orders : r.user # req[p].user

\* The Luhn sum of a string of digits: the digit at position k from the
\* right counts as it is for odd k, and doubled, minus 9 when that is above
\* 9, for even k.
LuhnSum(str) ==
  LET n == Len(str)
      term == [k \in 1..n |->
                 LET digit == DigitValue(str[n + 1 - k])
                 IN IF k % 2 = 1 THEN digit
                    ELSE IF 2 * digit > 9 THEN 2 * digit - 9 ELSE 2 * digit]
  IN SumOver(1..n, term)

\* Non-empty, decimal digits only, Luhn sum divisible by 10.
LuhnValid(str) ==
  /\ str # <<>>
  /\ \A i \in DOMAIN str : str[i] \in {DigitChars[d] : d \in DOMAIN DigitChars}
  /\ LuhnSum(str) % 10 = 0

\* C25: IsValidOrderNumber holds exactly of the non-empty strings of decimal
\* digits whose Luhn sum is divisible by 10, and the upload handler has
\* called AddOrder only with such a number (a body it answered 422 is not
\* one).
C25_LuhnGuardsRegister ==
  /\ web.pc \in {"upload", "addOrder", "done"} =>
       (IsValidOrderNumber(web.body) <=> LuhnValid(web.body))
  /\ web.pc = "done" /\ web.status = 422 => ~LuhnValid(web.number)
  /\ web.pc = "addOrder" => LuhnValid(web.number)
  /\ web.called => web.registered = web.number /\ LuhnValid(web.registered)

\* AddOrder has been called with a valid number of two digits that came
\* with a space around it.
C25_Witness ==
  /\ web.pc = "done"
  /\ web.called
  /\ Len(web.registered) = 2
  /\ web.body # web.number

\* Statuses GetOrdersForAccrual selects.
Waiting == {OrderStatusNew, OrderStatusProcessing}

\* C26: every order in the batch of a running cycle was NEW or PROCESSING
\* when it was fetched and still is when its turn comes, so every oracle
\* query is for such an order; and no step changes the status or the accrual
\* of an order that is PROCESSED or INVALID.
C26_TerminalOrdersUntouched ==
  /\ [](\A i \in DOMAIN loop.batch :
          /\ loop.batch[i].Status \in Waiting
          /\ \E r \in orders :
               r.number = loop.batch[i].Number /\ r.status \in Waiting)
  /\ [][QueryIssued => NonTerminal(Head(loop.batch).Number)]_vars
  /\ [][\A r \in orders : r.status \notin Waiting => r \in orders']_vars

\* A cycle has scored one order of its batch and is about to query the
\* next one.
C26_Witness ==
  /\ loop.pc = "range"
  /\ queries >= 1
  /\ \E r \in orders : r.status = OrderStatusProcessed /\ r.accrual # NULL
  /\ NonTerminal(Head(loop.batch).Number)

\* The step in which goroutine p returns from GetBalance.
BalanceReturns(p) ==
  /\ req[p].op = "GetBalance"
  /\ req[p].pc = "sumWithdrawals"
  /\ req'[p].pc = "done"

\* C27: the difference accrualTotal - withdrawnTotal of the two reads of a
\* GetBalance is never negative, so the current it returns is that
\* difference, not changed by the floor.
C27_FloorNeverActs ==
  [][\A p \in Procs :
       BalanceReturns(p) =>
         /\ req[p].accrualTotal - req'[p].withdrawnTotal >= 0
         /\ req'[p].current = req[p].accrualTotal - req'[p].withdrawnTotal]_vars

\* C28: the update of an order is one step that writes the status and, when
\* the oracle reported an amount with PROCESSED, the amount with it.  An
\* order has an amount only when it is PROCESSED; an iteration of the cycle
\* leaves every row as it was or sets the status of the order at the head of
\* the batch together with the reported amount; and an iteration whose write
\* fails, or that runs after cancellation, changes no row.
C28_StatusAndAmountTogether ==
  /\ [](\A r \in orders : r.accrual # NULL => r.status = OrderStatusProcessed)
  /\ [][\A a \in OracleAnswers, written \in BOOLEAN :
          ProcessOrder(a, written) =>
            /\ cancelled \/ ~written => orders' = orders
            /\ \A r \in orders : \A r2 \in RowsOf(orders', r.number) :
                 \/ r2 = r
                 \/ /\ r.number = Head(loop.batch).Number
                    /\ r2.status = LocalStatus(a.Status)
                    /\ ProcessedWithAccrual(a) => r2.accrual # NULL
                    /\ ~ProcessedWithAccrual(a) => r2.accrual = r.accrual]_vars

\* The process was cancelled in the middle of a cycle: one order of the batch
\* has been scored with its amount, the next one is still waiting.
C28_Witness ==
  /\ cancelled
  /\ loop.pc = "range"
  /\ \E r \in orders : r.status = OrderStatusProcessed /\ r.accrual # NULL
  /\ \E r \in orders :
       r.number = Head(loop.batch).Number /\ r.status = OrderStatusNew

\* The rows of the store that wait for the oracle.
WaitingRows == {r \in orders : r.status \in Waiting}

\* The row of the store a batch entry stands for.
RowOf(entry) == CHOOSE r \in orders : r.number = entry.Number

\* batch is what a cycle should work on: at most 100 entries, each a waiting
\* row of the store with its status, no row twice, in ascending submission
\* time, no waiting row left out while there is room, and no waiting row
\* left out that was submitted before one that is in.
IsOldestWaiting(batch) ==
  /\ Len(batch) <= 100
  /\ \A i \in DOMAIN batch :
       \E r \in WaitingRows :
         r.number = batch[i].Number /\ r.status = batch[i].Status
  /\ \A i, j \in DOMAIN batch :
       i < j => /\ batch[i].Number # batch[j].Number
                /\ RowOf(batch[i]).uploaded <= RowOf(batch[j]).uploaded
  /\ \A r \in WaitingRows :
       \/ \E i \in DOMAIN batch : batch[i].Number = r.number
       \/ /\ Len(batch) = 100
          /\ \A i \in DOMAIN batch : RowOf(batch[i]).uploaded <= r.uploaded

\* C29: the batch a cycle fetches is the oldest waiting orders of the store,
\* at most 100 of them, oldest first, and the cycle takes them in that
\* order, one after the other.
C29_BatchIsOldestHundred ==
  /\ [][BeginCycle(TRUE) /\ ~cancelled =>
          IsOldestWaiting(IF loop'.pc = "range" THEN loop'.batch ELSE <<>>)]_vars
  /\ [][loop.pc = "range" /\ loop'.pc = "range" /\ loop' # loop =>
          loop'.batch = Tail(loop.batch)]_vars
  /\ [](Len(loop.batch) <= 100)

\* A cycle has fetched a full batch of 100 from a store in which more than
\* 100 orders wait.
C29_Witness ==
  /\ loop.pc = "range"
  /\ Len(loop.batch) = 100
  /\ queries = 0
  /\ Cardinality(WaitingRows) > 100

\* The waiting orders of the backlog of size n that were submitted first and
\* last.
BacklogEnds(n) ==
  LET waiting == {r \in BacklogStore(n) : r.status \in Waiting}
  IN {r.number : r \in {x \in waiting :
        \/ \A y \in waiting : x.uploaded <= y.uploaded
        \/ \A y \in waiting : x.uploaded >= y.uploaded}}

\* C30: while the loop runs, every order that waits for the oracle is queried
\* at some later point, however many other orders wait and whatever the
\* oracle answers for them; stated for the orders of each backlog that were
\* submitted first and last.
C30_NoOrderStarves ==
  \A n \in BacklogSizes : \A number \in BacklogEnds(n) :
    (Cardinality(orders) = n /\ NonTerminal(number)) ~> AboutToQuery(number)

\* ------------------------------------------- claims: handling the answers
\* A 200 answer with a body whose status is one of the four known values.
Recognized(a) ==
  /\ ~a.err /\ a.statusCode = 200 /\ a.hasResp
  /\ a.Status \in {"REGISTERED", "PROCESSING", "INVALID", "PROCESSED"}

\* The status written for a reported status.
WrittenFor(status) ==
  CASE status \in {"REGISTERED", "PROCESSING"} -> OrderStatusProcessing
    [] status = "INVALID" -> OrderStatusInvalid
    [] status = "PROCESSED" -> OrderStatusProcessed

\* The row of the order at the head of the batch.
HeadRow == CHOOSE r \in orders : r.number = Head(loop.batch).Number

\* C31: an iteration that gets a 200 answer with a known status and whose
\* write succeeds leaves the order with the status that belongs to the
\* reported one, whatever its status was and whatever amount the answer
\* carries; the amount of the answer is stored when the status is PROCESSED
\* and an amount is present, and in every other case the stored amount is
\* left as it was.
C31_StatusFollowsAnswer ==
  [][\A a \in OracleAnswers :
       (Recognized(a) /\ ~cancelled /\ ProcessOrder(a, TRUE)) =>
         \A r2 \in RowsOf(orders', HeadRow.number) :
           /\ r2.status = WrittenFor(a.Status)
           /\ r2.accrual =
                IF a.Status = "PROCESSED" /\ a.Accrual # NULL
                  THEN {ToCents(CHOOSE v \in a.Accrual : TRUE)}
                  ELSE HeadRow.accrual
           /\ r2.status # OrderStatusProcessed => r2.accrual = NULL]_vars

\* One cycle has scored an order with an amount and has rejected another.
C31_Witness ==
  /\ queries = 2
  /\ \E r \in orders : r.status = OrderStatusProcessed /\ r.accrual # NULL
  /\ \E r \in orders : r.status = OrderStatusInvalid
  /\ loop.pc = "wait"

\* The oracle does not know the order yet (204), or reports a status that is
\* none of the four known values.
NotYetKnownOrUnrecognized(a) ==
  /\ ~a.err
  /\ \/ a.statusCode = 204
     \/ /\ a.statusCode = 200 /\ a.hasResp
        /\ a.Status \notin {"REGISTERED", "PROCESSING", "INVALID", "PROCESSED"}

\* C32: an iteration that gets 204 or an unrecognized status changes no row
\* of the store, so the order keeps its status and amount and still waits;
\* the cycle goes on with the next order of the batch without a pause, as
\* after any answer that is not an error; and the batch that a later cycle
\* fetches holds every order that waits.
C32_NoWriteWhenNotKnown ==
  /\ [][\A a \in OracleAnswers, written \in BOOLEAN :
          (NotYetKnownOrUnrecognized(a) /\ ~cancelled
             /\ ProcessOrder(a, written)) =>
            /\ orders' = orders
            /\ NonTerminal(Head(loop.batch).Number)
            /\ loop' = Continue
            /\ timer' = timer /\ backoff' = backoff]_vars
  /\ [][(BeginCycle(TRUE) /\ ~cancelled) =>
          \A r \in orders :
            r.status \in Waiting =>
              \E i \in DOMAIN loop'.batch : loop'.batch[i].Number = r.number]_vars

\* A cycle has queried both orders of the store and has left both NEW, with
\* no pause and no cancellation; the loop waits for the next tick.
C32_Witness ==
  /\ Cardinality(orders) = 2
  /\ \A r \in orders : r.status = OrderStatusNew /\ r.accrual = NULL
  /\ queries = 2
  /\ loop.pc = "wait"
  /\ backoff = 0
  /\ ~cancelled

\* The query fails (an error, no status code, or a status code that is not
\* 200, 204 or 429), or the answer is recognized and the UPDATE fails.
FailsForOrder(a, written) ==
  \/ a.err
  \/ a.statusCode \notin {200, 204, 429}
  \/ Recognized(a) /\ ~written

\* The order with the given number is in the batch of the running cycle.
InBatch(number) ==
  \E i \in DOMAIN loop.batch : loop.batch[i].Number = number

\* C33: an iteration in which the query or the write fails changes no row,
\* so the order still waits, unchanged; it arms no pause, and the cycle goes
\* on with the rest of the batch: the next order is the next to be queried.
\* Every order of a batch gets its turn in that cycle unless the process is
\* cancelled, and a recognized answer for it is written whatever happened to
\* the orders before it.
C33_FailureIsLocal ==
  /\ [][\A a \in OracleAnswers, written \in BOOLEAN :
          (FailsForOrder(a, written) /\ ~cancelled
             /\ ProcessOrder(a, written)) =>
            /\ orders' = orders
            /\ NonTerminal(Head(loop.batch).Number)
            /\ timer' = timer
            /\ loop'.batch = Tail(loop.batch)
            /\ loop'.pc = IF Tail(loop.batch) = <<>> THEN "wait" ELSE "range"]_vars
  /\ [][\A a \in OracleAnswers :
          (Recognized(a) /\ ~cancelled /\ ProcessOrder(a, TRUE)) =>
            \A r2 \in RowsOf(orders', HeadRow.number) :
              r2.status = WrittenFor(a.Status)]_vars
  /\ \A number \in Numbers :
       (loop.pc = "range" /\ InBatch(number)) ~>
         (AboutToQuery(number) \/ cancelled)

\* One cycle has queried both orders: the older one still is NEW, the one
\* after it has been scored with its amount.
C33_Witness ==
  /\ queries = 2
  /\ loop.pc = "wait"
  /\ ~cancelled
  /\ \E r1, r2 \in orders :
       /\ r1.uploaded < r2.uploaded
       /\ r1.status = OrderStatusNew
       /\ r2.status = OrderStatusProcessed /\ r2.accrual # NULL

\* ------------------------------------- claims: cancellation in the pause
\* The loop is in a rate-limit pause and the context has been cancelled.
CancelledInPause == loop.pc = "pause" /\ cancelled

\* C34: in a pause, once the context is cancelled the loop can return
\* whether or not the timer has fired; while the timer has not fired the
\* only step the loop takes is that return, which drops the rest of the
\* batch and stops the timer; the cycle is then over; and no step after the
\* cancellation sends a request to the oracle or changes a row.
C34_PauseIsInterruptible ==
  /\ [](CancelledInPause => ENABLED LoopPauseCancelled)
  /\ [][(CancelledInPause /\ timer > 0 /\ loop' # loop) =>
          loop' = IdleLoop /\ timer' = 0]_vars
  /\ CancelledInPause ~> (loop.batch = <<>> /\ loop.pc \in {"wait", "stopped"})
  /\ [][cancelled => queries' <= queries /\ orders' = orders]_vars

\* The cycle returned out of a pause that had not run out, leaving an order
\* of its batch that was never queried.
C34_Witness ==
  /\ cancelled
  /\ loop.pc = "wait"
  /\ backoff > 0
  /\ queries = 1
  /\ Cardinality({r \in orders : r.status \in Waiting}) = 2

\* ------------------------------------------- claims: GetBalance, one state
\* C35: the pair that a GetBalance returns is the view (withdrawn, and
\* accrued minus withdrawn, floored at zero as the code does) of its user's
\* ledger in one of the store states from the start of the call to its
\* return.
C35_BalanceFromOneState ==
  [][\A p \in Procs :
       BalanceReturns(p) =>
         \E t \in seen[p] :
           /\ req'[p].withdrawnTotal = t.withdrawn
           /\ req'[p].current = FloorAtZero(t.accrued - t.withdrawn)]_vars

\* ------------------------------------------------ claims: stored amounts
\* C36: no order has a negative amount stored, whatever the oracle answers,
\* and the accrued total of a user never gets smaller.
C36_AccrualsNonNegative ==
  /\ [](\A r \in orders : \A v \in r.accrual : v >= 0)
  /\ [][\A u \in Users :
          SumAccruals(orders', u) >= SumAccruals(orders, u)]_vars

\* ------------------------------------------ claims: withdrawal references
\* A committed withdrawal has the reference that request p names.
ReferenceUsed(p) == \E w \in withdrawals : w.order = req[p].key

\* No two withdrawals share a reference, and no step changes or removes a
\* withdrawal.
ReferencesUniqueAndKept ==
  /\ [](\A w1, w2 \in withdrawals : w1.order = w2.order => w1 = w2)
  /\ [][\A w \in withdrawals : w \in withdrawals']_vars

\* C37 as stated: a withdrawal whose reference is already used, by the same
\* or another user, fails with the storage error and inserts nothing,
\* whatever its amount and the balance; references are unique and
\* withdrawals are never changed or removed.
C37_UsedReferenceFailsInStorage ==
  /\ ReferencesUniqueAndKept
  /\ [][\A p \in Procs :
          (WithdrawDecides(p) /\ ReferenceUsed(p)) =>
            /\ req'[p].pc = "done"
            /\ req'[p].result = ErrStorage
            /\ withdrawals' = withdrawals]_vars

\* C37 amended: a withdrawal whose reference is already used, by the same or
\* another user, fails and inserts nothing: with ErrInsufficientBalance when
\* its amount is larger than the balance, and with the storage error when
\* the balance covers it; references are unique and withdrawals are never
\* changed or removed.
C37_UsedReferenceFails ==
  /\ ReferencesUniqueAndKept
  /\ [][\A p \in Procs :
          (WithdrawDecides(p) /\ ReferenceUsed(p)) =>
            /\ req'[p].pc = "done"
            /\ req'[p].result =
                 IF req[p].sumCents > Current(orders, withdrawals, req[p].user)
                   THEN ErrInsufficientBalance
                   ELSE ErrStorage
            /\ withdrawals' = withdrawals]_vars

\* A covered withdrawal has failed in storage on the reference of the one
\* withdrawal of the store, and the store is as it was.
C37_Witness ==
  /\ Cardinality(withdrawals) = 1
  /\ \E p, q \in Procs :
       /\ req[p].pc = "done" /\ req[p].result = "ok"
       /\ req[q].pc = "done" /\ req[q].result = ErrStorage

\* ------------------------------------------------ claims: resubmission
\* C38: no step of an AddOrder changes or removes a row of the store, and an
\* AddOrder that returns for a number that has a row leaves that one row as
\* it was (owner, status, amount, time of submission) and reports it as
\* existing or as owned by another user; a number never has two rows.
C38_ResubmitKeepsTheRow ==
  /\ [](\A n \in Numbers : Cardinality(RowsOf(orders, n)) <= 1)
  /\ [][\A p \in Procs :
          /\ (req[p].op = "AddOrder" /\ req'[p] # req[p]) =>
               \A r \in orders : r \in orders'
          /\ (AddOrderReturns(p) /\ RowsOf(orders, req[p].key) # {}) =>
               /\ RowsOf(orders', req[p].key) = RowsOf(orders, req[p].key)
               /\ req'[p].result =
                    IF \E r \in orders :
                         r.number = req[p].key /\ r.user = req[p].user
                      THEN "alreadyExists"
                      ELSE ErrOrderOwnedByAnother]_vars

\* The one order of the store is terminal or in progress, and a
\* registration of its number has been answered as a resubmission.
C38_Witness ==
  /\ Cardinality(orders) = 1
  /\ \A r \in orders : r.status # OrderStatusNew
  /\ \E p \in Procs :
       /\ req[p].pc = "done"
       /\ req[p].result \in {"alreadyExists", ErrOrderOwnedByAnother}

\* --------------------------------------- claims: scored without an amount
\* An order that is PROCESSED and has no amount.
ScoredWithoutAmount(r) == r.status = OrderStatusProcessed /\ r.accrual = NULL

\* C39: an iteration that gets 200 PROCESSED without an amount and whose
\* write succeeds leaves the order PROCESSED with no amount and the accrued
\* total of every user as it was; an order that is PROCESSED without an
\* amount adds nothing to the accrued total of its owner, is in no batch, is
\* not the order of any query, and is never changed again.
C39_ScoredWithoutAmountStays ==
  /\ [][\A a \in OracleAnswers :
          (/\ Recognized(a) /\ a.Status = "PROCESSED" /\ a.Accrual = NULL
           /\ ~cancelled
           /\ ProcessOrder(a, TRUE)) =>
            /\ \A r2 \in RowsOf(orders', HeadRow.number) :
                 ScoredWithoutAmount(r2)
            /\ \A u \in Users :
                 SumAccruals(orders', u) = SumAccruals(orders, u)]_vars
  /\ [](\A r \in orders :
          ScoredWithoutAmount(r) =>
            /\ SumAccruals(orders, r.user) = SumAccruals(orders \ {r}, r.user)
            /\ ~InBatch(r.number))
  /\ [][\A r \in orders :
          ScoredWithoutAmount(r) =>
            /\ r \in orders'
            /\ QueryIssued => Head(loop.batch).Number # r.number]_vars

\* An order was scored without an amount, and a later cycle has found
\* nothing to query.
C39_Witness ==
  /\ \E r \in orders : ScoredWithoutAmount(r)
  /\ \A r \in orders : r.status \notin Waiting
  /\ loop.pc = "wait"
  /\ queries = 0
  /\ ~cancelled

====
